---- MODULE Spec2Model ----
(***************************************************************************)
(* Model of the FinalPrisma e-commerce backend: the service layer          *)
(* (OrderDetailService, OrderService, ProductService, the soft-delete      *)
(* services and UserService/AuthService) over the relational tables of     *)
(* prisma/schema.prisma.                                                   *)
(*                                                                         *)
(* A request handler is an async function: every `await prisma...` is a    *)
(* point where another request may run, so a handler is a sequence of      *)
(* steps (one per awaited ORM call) driven by a program counter.  Spec     *)
(* runs one request at a time (the contract of a single call); SpecConc    *)
(* interleaves the steps of several requests.                              *)
(***************************************************************************)
EXTENDS Integers, Sequences, FiniteSets, TLC

\* ------------------------------------------------------------------ bounds
NumVariantes == 2
StockInicial == 2
MaxCantidad == 2
MaxDetalles == 2
MaxOrdenes == 2
MaxLineasPayload == 2
NumReqs == 2

\* ------------------------------------------------------------ the tables
Variantes == 1..NumVariantes
\* table usuarios as far as orders need it: the rol of each user id; an AuthUser
\* (the currentUser of a request) is a user id with the rol of that row
RolDe == <<"ADMIN", "CLIENTE", "CLIENTE">>
UsuarioIds == DOMAIN RolDe
SinUsuario == 0

\* ids a payload may name: the existing rows and one id that is in no table
IdsVariantePayload == 1..(NumVariantes + 1)
IdsOrdenPayload == 1..(MaxOrdenes + 1)
Cantidades == 1..MaxCantidad

\* precioCompra of each ProductoDetalle row
PrecioCompra == [v \in Variantes |-> 10 * v]

Reqs == 1..NumReqs

VARIABLES
    stockActual,        \* ProductoDetalle.stockActual, by variant id
    pdActivo,           \* ProductoDetalle.activo, by variant id
    ordenCompra,        \* table orden_compra: sequence of rows, id = index
    ordenCompraDetalle, \* table orden_compra_detalle: sequence of rows, id = index
    descontadas,        \* ids of order lines whose cantidad has been deducted from stock
    req,                \* the requests in flight, by slot
    tz,                 \* offset of the server's time zone from UTC, in hours
    descuentos,         \* table descuentos: sequence of rows, id = index
    consulta,           \* the product being mapped to a DTO and the precioFinal computed
    activo,             \* the activo column of the other tables, by table and row id
    usuarios,           \* table usuarios: sequence of rows, id = index
    uuids,              \* number of uuidv4() values generated so far
    respuesta,          \* outcome of the last call of AuthService / UserService
    peticion,           \* the last HTTP request to a guarded route, and how far it got
    bajas               \* <<table, id>> of the rows deleted and not reactivated since

varsOrden == <<stockActual, pdActivo, ordenCompra, ordenCompraDetalle, descontadas, req>>

varsPrecio == <<tz, descuentos, consulta>>

varsUsuario == <<usuarios, uuids, respuesta, peticion>>

\* what the order handlers never touch
fueraDeOrden == <<varsPrecio, activo, varsUsuario, bajas>>

vars == <<varsOrden, varsPrecio, activo, varsUsuario, bajas>>

\* -------------------------------------------------------------- requests
SinMapa == [v \in {} |-> 0]

Antes == [stockActual |-> stockActual,
          nDetalles |-> Len(ordenCompraDetalle),
          nOrdenes |-> Len(ordenCompra)]

ReqLibre ==
    [op |-> "none", pc |-> "idle", rol |-> "ADMIN", uid |-> SinUsuario,
     ordenCompraId |-> 0, productoDetalleId |-> 0, cantidad |-> 0,
     detalles |-> <<>>, mapa |-> SinMapa, creado |-> 0,
     resultado |-> "pendiente", error |-> "",
     antes |-> [stockActual |-> [v \in Variantes |-> 0], nDetalles |-> 0, nOrdenes |-> 0]]

EnVuelo(r) == req[r].op # "none" /\ req[r].pc # "done"

Termina(r, resultado, error) ==
    [req[r] EXCEPT !.pc = "done", !.resultado = resultado, !.error = error]

\* ------------------------------------------------------ ORM primitives
\* (mutation of Decrement: the stock goes down by one unit whatever the quantity)
DecrementUnaUnidad(s, v, n) == [s EXCEPT ![v] = @ - 1]

\* a decrement by the size of the change, whatever its sign
DecrementAbsoluto(s, v, n) == [s EXCEPT ![v] = @ - (IF n < 0 THEN 0 - n ELSE n)]

\* prisma.productoDetalle.update({ data: { stockActual: { decrement: n } } }):
\* one UPDATE ... SET stockActual = stockActual - n on the row's current value
Decrement(s, v, n) == [s EXCEPT ![v] = @ - n]

\* (mutation of StockInsuficiente: the comparison is off by one)
StockInsuficienteNunca(disponible, cantidad) == FALSE
StockInsuficienteLaxo(disponible, cantidad) == disponible + 1 < cantidad

\* the stock check of OrderDetailService.create
StockInsuficiente(disponible, cantidad) == disponible < cantidad

\* the CLIENTE ownership check of OrderDetailService.create
\* (mutation of NoAutorizado: only an order without owner is refused)
NoAutorizadoSinDueno(rol, uid, orden) ==
    rol = "CLIENTE" /\ orden.usuarioId = SinUsuario

NoAutorizado(rol, uid, orden) ==
    rol = "CLIENTE" /\ (orden.usuarioId = SinUsuario \/ orden.usuarioId # uid)

NuevoDetalle(ordenId, pd, cantidad, subtotal) ==
    [ordenCompraId |-> ordenId, productoDetalleId |-> pd,
     cantidad |-> cantidad, subtotal |-> subtotal, activo |-> TRUE]

\* ------------------------------------------ OrderDetailService.create
CreateLlamarCon(r, uids, ordenes, variantes) ==
    /\ req[r].op = "none"
    /\ Len(ordenCompraDetalle) < MaxDetalles
    /\ \E uid \in uids, o \in ordenes, pd \in variantes, c \in Cantidades :
          req' = [req EXCEPT ![r] =
                    [ReqLibre EXCEPT !.op = "create", !.pc = "k1",
                                     !.rol = RolDe[uid], !.uid = uid,
                                     !.ordenCompraId = o, !.productoDetalleId = pd,
                                     !.cantidad = c, !.antes = Antes]]
    /\ UNCHANGED <<stockActual, pdActivo, ordenCompra, ordenCompraDetalle, descontadas>>
    /\ UNCHANGED fueraDeOrden

\* 1-2. findUnique(ordenCompra) and the authorisation of a CLIENTE
CreateOrden(r) ==
    /\ req[r].op = "create" /\ req[r].pc = "k1"
    /\ LET o == req[r].ordenCompraId IN
       req' = [req EXCEPT ![r] =
                 IF o \notin DOMAIN ordenCompra
                 THEN Termina(r, "error", "orden_no_encontrada")
                 ELSE IF NoAutorizado(req[r].rol, req[r].uid, ordenCompra[o])
                 THEN Termina(r, "error", "no_autorizado")
                 ELSE [req[r] EXCEPT !.pc = "k2"]]
    /\ UNCHANGED <<stockActual, pdActivo, ordenCompra, ordenCompraDetalle, descontadas>>
    /\ UNCHANGED fueraDeOrden

\* 3-5. findUnique(productoDetalle), the stock check, the subtotal
CreateProducto(r) ==
    /\ req[r].op = "create" /\ req[r].pc = "k2"
    /\ LET pd == req[r].productoDetalleId IN
       req' = [req EXCEPT ![r] =
                 IF pd \notin Variantes
                 THEN Termina(r, "error", "detalle_no_encontrado")
                 ELSE IF StockInsuficiente(stockActual[pd], req[r].cantidad)
                 THEN Termina(r, "error", "stock_insuficiente")
                 ELSE [req[r] EXCEPT !.pc = "k3"]]
    /\ UNCHANGED <<stockActual, pdActivo, ordenCompra, ordenCompraDetalle, descontadas>>
    /\ UNCHANGED fueraDeOrden

\* 6. prisma.ordenCompraDetalle.create
CreateInsertar(r) ==
    /\ req[r].op = "create" /\ req[r].pc = "k3"
    /\ LET pd == req[r].productoDetalleId
           c  == req[r].cantidad IN
       /\ ordenCompraDetalle' = Append(ordenCompraDetalle,
              NuevoDetalle(req[r].ordenCompraId, pd, c, PrecioCompra[pd] * c))
       /\ req' = [req EXCEPT ![r].pc = "k4", ![r].creado = Len(ordenCompraDetalle) + 1]
    /\ UNCHANGED <<stockActual, pdActivo, ordenCompra, descontadas>>
    /\ UNCHANGED fueraDeOrden

\* 7. prisma.productoDetalle.update({ stockActual: { decrement: cantidad } })
CreateDescontar(r) ==
    /\ req[r].op = "create" /\ req[r].pc = "k4"
    /\ stockActual' = Decrement(stockActual, req[r].productoDetalleId, req[r].cantidad)
    /\ descontadas' = descontadas \cup {req[r].creado}
    /\ req' = [req EXCEPT ![r] = Termina(r, "ok", "")]
    /\ UNCHANGED <<pdActivo, ordenCompra, ordenCompraDetalle>>
    /\ UNCHANGED fueraDeOrden

\* ------------------------------------------------ OrderService.crear
PayloadsDetalles(variantes) ==
    UNION {[1..n -> [productoDetalleId : variantes, cantidad : Cantidades]] :
           n \in 0..MaxLineasPayload}

\* prisma.productoDetalle.findMany({ where: { id: { in: ids }, activo: true } })
\* as the Map by id built from it: the stockActual read for each active variant
ProductosDetalleMap(detalles) ==
    [v \in {w \in Variantes : pdActivo[w] /\ \E i \in DOMAIN detalles :
                                               detalles[i].productoDetalleId = w}
        |-> stockActual[v]]

\* the validation loop: the error of the first payload line that fails, "" if none
RECURSIVE ValidarDetalles(_, _, _)
ValidarDetalles(detalles, mapa, i) ==
    IF i > Len(detalles) THEN ""
    ELSE IF detalles[i].productoDetalleId \notin DOMAIN mapa
         THEN "detalle_no_encontrado"
    ELSE IF mapa[detalles[i].productoDetalleId] < detalles[i].cantidad
         THEN "stock_insuficiente"
    ELSE ValidarDetalles(detalles, mapa, i + 1)

RECURSIVE TotalCalculado(_, _)
TotalCalculado(detalles, i) ==
    IF i > Len(detalles) THEN 0
    ELSE PrecioCompra[detalles[i].productoDetalleId] * detalles[i].cantidad
         + TotalCalculado(detalles, i + 1)

DetallesParaCrear(ordenId, detalles) ==
    [i \in DOMAIN detalles |->
        NuevoDetalle(ordenId, detalles[i].productoDetalleId, detalles[i].cantidad,
                     PrecioCompra[detalles[i].productoDetalleId] * detalles[i].cantidad)]

\* tx.productoDetalle.update({ data: { stockActual: <value read> - cantidad } }):
\* the value written is computed from the stock read before the order was created
EscribirStock(s, v, leido, cantidad) == [s EXCEPT ![v] = leido - cantidad]

\* the loop of the $transaction, one update per payload line, in payload order
RECURSIVE DescontarStockOrden(_, _, _, _)
DescontarStockOrden(s, detalles, mapa, i) ==
    IF i > Len(detalles) THEN s
    ELSE LET v == detalles[i].productoDetalleId IN
         DescontarStockOrden(
             IF v \in DOMAIN mapa THEN EscribirStock(s, v, mapa[v], detalles[i].cantidad)
                                  ELSE s,
             detalles, mapa, i + 1)

CrearLlamarCon(r, payloads) ==
    /\ req[r].op = "none"
    /\ Len(ordenCompra) < MaxOrdenes
    /\ \E d \in payloads :
          /\ Len(ordenCompraDetalle) + Len(d) <= MaxDetalles
          /\ req' = [req EXCEPT ![r] =
                       [ReqLibre EXCEPT !.op = "crear", !.pc = "c1",
                                        !.detalles = d, !.antes = Antes]]
    /\ UNCHANGED <<stockActual, pdActivo, ordenCompra, ordenCompraDetalle, descontadas>>
    /\ UNCHANGED fueraDeOrden

\* the payload check, findMany and the validation loop (no await in between)
CrearValidar(r) ==
    /\ req[r].op = "crear" /\ req[r].pc = "c1"
    /\ LET d    == req[r].detalles
           mapa == ProductosDetalleMap(d)
           err  == ValidarDetalles(d, mapa, 1) IN
       req' = [req EXCEPT ![r] =
                 IF Len(d) = 0 THEN Termina(r, "error", "sin_detalles")
                 ELSE IF err # "" THEN Termina(r, "error", err)
                 ELSE [req[r] EXCEPT !.pc = "c3", !.mapa = mapa]]
    /\ UNCHANGED <<stockActual, pdActivo, ordenCompra, ordenCompraDetalle, descontadas>>
    /\ UNCHANGED fueraDeOrden

\* prisma.ordenCompra.create with the nested detalles: one statement, the order row
\* and its lines together.  The payload's userId is not passed on to the ORM.
CrearInsertar(r) ==
    /\ req[r].op = "crear" /\ req[r].pc = "c3"
    /\ LET id == Len(ordenCompra) + 1
           d  == req[r].detalles IN
       /\ ordenCompra' = Append(ordenCompra,
              [total |-> TotalCalculado(d, 1), activo |-> TRUE, usuarioId |-> SinUsuario])
       /\ ordenCompraDetalle' = ordenCompraDetalle \o DetallesParaCrear(id, d)
       /\ req' = [req EXCEPT ![r].pc = "c4", ![r].creado = id]
    /\ UNCHANGED <<stockActual, pdActivo, descontadas>>
    /\ UNCHANGED fueraDeOrden

\* prisma.$transaction: the stock updates of all lines, committed together
CrearDescontar(r) ==
    /\ req[r].op = "crear" /\ req[r].pc = "c4"
    /\ stockActual' = DescontarStockOrden(stockActual, req[r].detalles, req[r].mapa, 1)
    /\ descontadas' = descontadas \cup
           {i \in DOMAIN ordenCompraDetalle :
                ordenCompraDetalle[i].ordenCompraId = req[r].creado}
    /\ req' = [req EXCEPT ![r] = Termina(r, "ok", "")]
    /\ UNCHANGED <<pdActivo, ordenCompra, ordenCompraDetalle>>
    /\ UNCHANGED fueraDeOrden

\* ------------------------------ ProductDetailService.descontarStock
DescontarStockLlamar(r) ==
    /\ req[r].op = "none"
    /\ \E pd \in IdsVariantePayload, c \in Cantidades :
          req' = [req EXCEPT ![r] =
                    [ReqLibre EXCEPT !.op = "descontarStock", !.pc = "d1",
                                     !.productoDetalleId = pd, !.cantidad = c,
                                     !.antes = Antes]]
    /\ UNCHANGED <<stockActual, pdActivo, ordenCompra, ordenCompraDetalle, descontadas>>
    /\ UNCHANGED fueraDeOrden

\* the callback of prisma.$transaction, one step per awaited statement:
\* tx.productoDetalle.findUnique (a plain read, no lock) with the two checks on
\* the row read, then tx.productoDetalle.update writing <stock read> - cantidad,
\* committed as the callback returns
DescontarStock(r) ==
    /\ req[r].op = "descontarStock"
    /\ LET pd == req[r].productoDetalleId IN
       \/ /\ req[r].pc = "d1"
          /\ req' = [req EXCEPT ![r] =
                IF pd \notin Variantes \/ ~pdActivo[pd]
                THEN Termina(r, "error", "no_encontrado")
                ELSE IF StockInsuficiente(stockActual[pd], req[r].cantidad)
                THEN Termina(r, "error", "stock_insuficiente")
                ELSE [req[r] EXCEPT !.pc = "d2",
                                    !.mapa = [v \in {pd} |-> stockActual[pd]]]]
          /\ UNCHANGED stockActual
       \/ /\ req[r].pc = "d2"
          /\ stockActual' = EscribirStock(stockActual, pd, req[r].mapa[pd], req[r].cantidad)
          /\ req' = [req EXCEPT ![r] = Termina(r, "ok", "")]
    /\ UNCHANGED <<pdActivo, ordenCompra, ordenCompraDetalle, descontadas>>
    /\ UNCHANGED fueraDeOrden

\* an awaited ORM call rejects (the connection is lost, the statement is refused,
\* e.g. orden_compra.usuarioId is required by the schema): the handler throws at
\* that await; statements already executed outside a transaction stay committed
Fallo(r) ==
    /\ EnVuelo(r)
    /\ req' = [req EXCEPT ![r] = Termina(r, "error", "fallo")]
    /\ UNCHANGED <<stockActual, pdActivo, ordenCompra, ordenCompraDetalle, descontadas>>
    /\ UNCHANGED fueraDeOrden

\* ---------------------------- ProductDetailService.delete / reactivate
ProductDetailDelete(v) ==
    /\ pdActivo' = [pdActivo EXCEPT ![v] = FALSE]
    /\ bajas' = bajas \cup {<<"producto_detalle", v>>}
    /\ UNCHANGED <<stockActual, ordenCompra, ordenCompraDetalle, descontadas, req>>
    /\ UNCHANGED <<varsPrecio, activo, varsUsuario>>

ProductDetailReactivate(v) ==
    /\ pdActivo' = [pdActivo EXCEPT ![v] = TRUE]
    /\ bajas' = bajas \ {<<"producto_detalle", v>>}
    /\ UNCHANGED <<stockActual, ordenCompra, ordenCompraDetalle, descontadas, req>>
    /\ UNCHANGED <<varsPrecio, activo, varsUsuario>>

\* the handler has answered; the slot is free for the next request
Responder(r) ==
    /\ req[r].op # "none" /\ req[r].pc = "done"
    /\ req' = [req EXCEPT ![r] = ReqLibre]
    /\ UNCHANGED <<stockActual, pdActivo, ordenCompra, ordenCompraDetalle, descontadas>>
    /\ UNCHANGED fueraDeOrden

\* =========================================================== discounts
NumDias == 2
MaxDescuentos == 2

\* ------------------------------------------------------ the Date object
\* A Date is its time value, the milliseconds since 1970-01-01T00:00:00Z.  A
\* "YYYY-MM-DD" string is the number of its day since the epoch and a "HH:MM:SS"
\* string the number of its seconds since 00:00:00 (zero-padded strings of one
\* format compare as these numbers do).
MsHora == 3600 * 1000
MsDia == 24 * MsHora

\* the time zones the server may run in (hours east of UTC)
ZonasHorarias == {-3, 0, 2}
TzMs == tz * MsHora

\* new Date("YYYY-MM-DD"): a date-only string is read as UTC midnight
DateDeFecha(fecha) == fecha * MsDia

\* new Date("YYYY-MM-DDTHH:MM:SS"): a date-time string without offset is read
\* as local time
DateDeFechaHora(fecha, hora) == fecha * MsDia + hora * 1000 - TzMs

\* date.setHours(0, 0, 0, 0), and new Date(getFullYear(), getMonth(), getDate()):
\* the midnight that starts the local day of the instant
SetHours0(t) == ((t + TzMs) \div MsDia) * MsDia - TzMs

\* getHours() * 3600 + getMinutes() * 60 + getSeconds(): local time of day
SegundosLocales(t) == ((t + TzMs) % MsDia) \div 1000

\* date.setUTCHours(0, 0, 0, 0) and date.setUTCHours(23, 59, 59, 999)
SetUTCHours0(t) == (t \div MsDia) * MsDia
SetUTCHoursFin(t) == (t \div MsDia) * MsDia + (MsDia - 1)

\* getUTCHours() * 3600 + getUTCMinutes() * 60 + getUTCSeconds()
SegundosUTC(t) == (t % MsDia) \div 1000

\* date.toISOString().split('T')[0]: the UTC day, as a "YYYY-MM-DD" string
FechaISO(t) == t \div MsDia

\* formatTimeForValidation: date.toTimeString().split(' ')[0], the local time of
\* day as a "HH:MM:SS" string
FormatTimeForValidation(t) == SegundosLocales(t)

\* a @db.Date column keeps the UTC day of the Date written and returns its UTC
\* midnight; a @db.Time(3) column keeps the UTC time of day and returns it on
\* 1970-01-01
ColumnaDate(t) == (t \div MsDia) * MsDia
ColumnaTime(t) == t % MsDia

\* `!x` of a number
Falsy(x) == x = 0

\* `x ?? y` of an optional field, held as a set of at most one value
Opt(x, y) == IF x = {} THEN y ELSE CHOOSE v \in x : TRUE

\* -------------------------------------------------------- the payloads
Fechas == 1..NumDias
Horas == {10 * 3600, 21 * 3600}
Porcentajes == {0, 10, 30}
Denominaciones == {"", "Promo"}

\* CreateDescuentoPayload; precioPromocional in hundredths
PayloadsDescuento ==
    [denominacion : Denominaciones, fechaDesde : Fechas, fechaHasta : Fechas,
     horaDesde : Horas, horaHasta : Horas, precioPromocional : Porcentajes,
     activo : {{}, {TRUE}, {FALSE}}]

SinCambios ==
    [denominacion |-> {}, fechaDesde |-> {}, fechaHasta |-> {}, horaDesde |-> {},
     horaHasta |-> {}, precioPromocional |-> {}, activo |-> {}]

\* UpdateDescuentoPayload: the payloads that set one field
PayloadsUpdateDescuento ==
    {[SinCambios EXCEPT !.denominacion = {v}] : v \in Denominaciones}
    \cup {[SinCambios EXCEPT !.fechaDesde = {v}] : v \in Fechas}
    \cup {[SinCambios EXCEPT !.fechaHasta = {v}] : v \in Fechas}
    \cup {[SinCambios EXCEPT !.horaDesde = {v}] : v \in Horas}
    \cup {[SinCambios EXCEPT !.horaHasta = {v}] : v \in Horas}
    \cup {[SinCambios EXCEPT !.precioPromocional = {v}] : v \in Porcentajes}
    \cup {[SinCambios EXCEPT !.activo = {v}] : v \in BOOLEAN}

IdsDescuentoPayload == 1..(MaxDescuentos + 1)

\* ------------------------------------------------------ DiscountService
\* private_validarDescuento: the message of the first check that fails, "" if none
Private_validarDescuento(data) ==
    IF data.denominacion = "" THEN "denominacion_vacia"
    ELSE IF data.precioPromocional <= 0 THEN "precio_no_positivo"
    ELSE IF SetHours0(DateDeFecha(data.fechaDesde)) > SetHours0(DateDeFecha(data.fechaHasta))
         THEN "fecha_inicio_posterior"
    ELSE IF data.horaDesde >= data.horaHasta THEN "hora_inicio_posterior"
    ELSE ""

\* the check of the combined start and end of create and update
InicioNoAnterior(data) ==
    DateDeFechaHora(data.fechaDesde, data.horaDesde)
        >= DateDeFechaHora(data.fechaHasta, data.horaHasta)

\* the row written by tx.descuento.create
FilaDescuento(data) ==
    [activo |-> Opt(data.activo, TRUE),
     denominacion |-> data.denominacion,
     fechaDesde |-> ColumnaDate(DateDeFecha(data.fechaDesde)),
     fechaHasta |-> ColumnaDate(DateDeFecha(data.fechaHasta)),
     horaDesde |-> ColumnaTime(DateDeFechaHora(0, data.horaDesde)),
     horaHasta |-> ColumnaTime(DateDeFechaHora(0, data.horaHasta)),
     precioPromocional |-> data.precioPromocional]

SinConsulta ==
    [hecha |-> FALSE, hoy |-> 0, precioVenta |-> 0, tienePromocion |-> FALSE,
     precioFinal |-> 0]

DiscountCreate ==
    /\ Len(descuentos) < MaxDescuentos
    /\ \E data \in PayloadsDescuento :
          descuentos' =
              IF Private_validarDescuento(data) # "" \/ InicioNoAnterior(data)
              THEN descuentos
              ELSE Append(descuentos, FilaDescuento(data))
    /\ consulta' = SinConsulta
    /\ UNCHANGED <<tz, varsOrden, activo, varsUsuario, bajas>>

\* the existing row merged with the payload, as strings, for the validation
CombinedForValidation(existing, data) ==
    [denominacion |-> Opt(data.denominacion, existing.denominacion),
     fechaDesde |-> Opt(data.fechaDesde, FechaISO(existing.fechaDesde)),
     fechaHasta |-> Opt(data.fechaHasta, FechaISO(existing.fechaHasta)),
     horaDesde |-> Opt(data.horaDesde, FormatTimeForValidation(existing.horaDesde)),
     horaHasta |-> Opt(data.horaHasta, FormatTimeForValidation(existing.horaHasta)),
     precioPromocional |-> Opt(data.precioPromocional, existing.precioPromocional),
     activo |-> Opt(data.activo, existing.activo)]

\* updateOperations applied to the row: the start (end) date and hour are both
\* written when either of them is in the payload
UpdateOperations(existing, data) ==
    LET c     == CombinedForValidation(existing, data)
        desde == data.fechaDesde # {} \/ data.horaDesde # {}
        hasta == data.fechaHasta # {} \/ data.horaHasta # {} IN
    [activo |-> Opt(data.activo, existing.activo),
     denominacion |-> Opt(data.denominacion, existing.denominacion),
     fechaDesde |-> IF desde THEN ColumnaDate(DateDeFecha(c.fechaDesde))
                             ELSE existing.fechaDesde,
     fechaHasta |-> IF hasta THEN ColumnaDate(DateDeFecha(c.fechaHasta))
                             ELSE existing.fechaHasta,
     horaDesde |-> IF desde THEN ColumnaTime(DateDeFechaHora(0, c.horaDesde))
                            ELSE existing.horaDesde,
     horaHasta |-> IF hasta THEN ColumnaTime(DateDeFechaHora(0, c.horaHasta))
                            ELSE existing.horaHasta,
     precioPromocional |-> Opt(data.precioPromocional, existing.precioPromocional)]

DiscountUpdateCon(payloads) ==
    /\ \E id \in IdsDescuentoPayload, data \in payloads :
          descuentos' =
              IF id \notin DOMAIN descuentos \/ ~descuentos[id].activo
              THEN descuentos
              ELSE LET c == CombinedForValidation(descuentos[id], data) IN
                   IF Private_validarDescuento(c) # "" \/ InicioNoAnterior(c)
                   THEN descuentos
                   ELSE [descuentos EXCEPT ![id] = UpdateOperations(@, data)]
    /\ consulta' = SinConsulta
    /\ UNCHANGED <<tz, varsOrden, activo, varsUsuario, bajas>>

\* ------------------------------------------- ProductService, the price
Precios == {100}
HorasReloj == {9, 11, 22}

\* the instants at which a product is priced, by the server's wall clock
Instantes ==
    {DateDeFechaHora(dia, h * 3600) : dia \in 1..(NumDias + 1), h \in HorasReloj}

\* the test of the loop body of calcularPrecioFinal: fechaValida && horaValida
FechaYHoraValidas(descuento, hoy) ==
    LET hoySoloFecha       == SetHours0(hoy)
        horaActualSegundos == SegundosLocales(hoy)
        fechaDesde         == SetUTCHours0(descuento.fechaDesde)
        fechaHasta         == SetUTCHoursFin(descuento.fechaHasta)
        horaDesdeSegundos  == SegundosUTC(descuento.horaDesde)
        horaHastaSegundos  == SegundosUTC(descuento.horaHasta)
        fechaValida == /\ (Falsy(fechaDesde) \/ hoySoloFecha >= fechaDesde)
                       /\ (Falsy(fechaHasta) \/ hoySoloFecha <= fechaHasta)
        horaValida  == /\ (Falsy(horaDesdeSegundos)
                              \/ horaActualSegundos >= horaDesdeSegundos)
                       /\ (Falsy(horaHastaSegundos)
                              \/ horaActualSegundos <= horaHastaSegundos) IN
    fechaValida /\ horaValida

\* precioActual * (1 - descuento.precioPromocional), in hundredths of the unit
PrecioAplicando(precioActual, precioPromocional) ==
    precioActual * (100 - precioPromocional)

\* the loop over producto.descuentos, from index i with the best price so far
RECURSIVE PrecioConDescuentoMasAlto(_, _, _, _, _)
PrecioConDescuentoMasAlto(precioActual, lista, hoy, i, mejor) ==
    IF i > Len(lista) THEN mejor
    ELSE LET aplicado == PrecioAplicando(precioActual, lista[i].precioPromocional) IN
         PrecioConDescuentoMasAlto(precioActual, lista, hoy, i + 1,
             IF FechaYHoraValidas(lista[i], hoy) /\ aplicado < mejor
             THEN aplicado ELSE mejor)

\* calcularPrecioFinal of a product row with its discounts, at the instant hoy;
\* the price in hundredths of the unit
CalcularPrecioFinal(producto, hoy) ==
    IF ~producto.tienePromocion \/ Len(producto.descuentos) = 0
    THEN producto.precioVenta * 100
    ELSE PrecioConDescuentoMasAlto(producto.precioVenta, producto.descuentos, hoy, 1,
                                   producto.precioVenta * 100)

\* mapearProductoADTO: a product, read with all its discounts, is priced now
MapearProductoADTO ==
    /\ \E hoy \in Instantes, pv \in Precios, tp \in BOOLEAN :
          consulta' =
              [hecha |-> TRUE, hoy |-> hoy, precioVenta |-> pv, tienePromocion |-> tp,
               precioFinal |-> CalcularPrecioFinal(
                   [precioVenta |-> pv, tienePromocion |-> tp,
                    descuentos |-> descuentos], hoy)]
    /\ UNCHANGED <<tz, descuentos, varsOrden, activo, varsUsuario, bajas>>

\* =============================================================== users
MaxUsuarios == 2
MaxUuids == 1

Emails == {<<"ana@mail.com">>, <<"beto@mail.com">>, <<"caro@mail.com">>}
Passwords == {"clave1", "clave2"}
IdsUsuarioPayload == 1..(MaxUsuarios + 1)

\* `deactivated_${uniqueId}@ecommerce.com` and `deactivated_${uniqueId}`
DeactivatedEmail(uniqueId) == <<"deactivated_", uniqueId, "@ecommerce.com">>
DeactivatedUserName(uniqueId) == <<"deactivated_", uniqueId>>

\* (mutation of BcryptCompare: every password matches)
BcryptCompareSiempre(p, stored) == TRUE

\* bcrypt.hash(p, 10), a password stored as it came, and bcrypt.compare(p, stored)
BcryptHash(p) == [hash |-> TRUE, texto |-> p]
SinHash(p) == [hash |-> FALSE, texto |-> p]
BcryptCompare(p, stored) == stored.hash /\ stored.texto = p

\* (mutation of ViolaUnique: the table has no unique index)
ViolaUniqueNunca(tabla, id, email, userName) == FALSE

\* the unique indexes of table usuarios on email and on userName: the write of
\* row id (0 for an insert) is refused when another row, active or not, holds
\* the email or the userName
ViolaUnique(tabla, id, email, userName) ==
    \E j \in DOMAIN tabla \ {id} :
        tabla[j].email = email \/ tabla[j].userName = userName

\* prisma.usuario.findFirst({ where: { email, activo: true } }) finds a row other
\* than id, and the same by userName
OtroActivoConEmail(tabla, id, email) ==
    \E j \in DOMAIN tabla \ {id} : tabla[j].activo /\ tabla[j].email = email
OtroActivoConUserName(tabla, id, userName) ==
    \E j \in DOMAIN tabla \ {id} : tabla[j].activo /\ tabla[j].userName = userName

FilaUsuario(email, userName, password, act) ==
    [activo |-> act, email |-> email, userName |-> userName, password |-> password,
     fechaBaja |-> "null"]

SinFila == FilaUsuario(<<>>, <<>>, SinHash(""), FALSE)

SinRespuesta ==
    [op |-> "none", userId |-> 0, resultado |-> "ok", error |-> "",
     newEmail |-> <<>>, newUserName |-> <<>>, antes |-> SinFila]

Respuesta(op, resultado, error) ==
    [SinRespuesta EXCEPT !.op = op, !.resultado = resultado, !.error = error]

\* the call ends with an error and has written nothing
Rechaza(op, error) ==
    /\ respuesta' = Respuesta(op, "error", error)
    /\ UNCHANGED <<usuarios, uuids>>

\* ---------------------------------------------------- AuthService.register
\* the error of register for an email, "" when the account is created: the email
\* is looked up among all rows, and the insert writes it as email and as userName
RegisterError(tabla, email) ==
    IF \E j \in DOMAIN tabla : tabla[j].email = email THEN "email_en_uso"
    ELSE IF ViolaUnique(tabla, 0, email, email) THEN "unique"
    ELSE ""

AuthRegister ==
    /\ Len(usuarios) < MaxUsuarios
    /\ \E email \in Emails, password \in Passwords :
          IF RegisterError(usuarios, email) # ""
          THEN Rechaza("register", RegisterError(usuarios, email))
          ELSE /\ usuarios' = Append(usuarios,
                      FilaUsuario(email, email, BcryptHash(password), TRUE))
               /\ respuesta' = Respuesta("register", "ok", "")
               /\ UNCHANGED uuids
    /\ UNCHANGED <<varsOrden, varsPrecio, activo, bajas, peticion>>

\* ------------------------------------------------------ UserService.create
UserCreate ==
    /\ Len(usuarios) < MaxUsuarios
    /\ \E email \in Emails, userName \in Emails, password \in Passwords,
          act \in {{}, {FALSE}} :
          IF OtroActivoConUserName(usuarios, 0, userName)
          THEN Rechaza("create", "userName_en_uso")
          ELSE IF OtroActivoConEmail(usuarios, 0, email)
          THEN Rechaza("create", "email_en_uso")
          ELSE IF ViolaUnique(usuarios, 0, email, userName)
          THEN Rechaza("create", "unique")
          ELSE /\ usuarios' = Append(usuarios,
                      FilaUsuario(email, userName, SinHash(password), Opt(act, TRUE)))
               /\ respuesta' = Respuesta("create", "ok", "")
               /\ UNCHANGED uuids
    /\ UNCHANGED <<varsOrden, varsPrecio, activo, bajas, peticion>>

\* ------------------------- AuthService / UserService.updateCredentials
\* UpdateCredentialsPayload: nothing, a new email or a new password
PayloadsCredentials ==
    {[newEmail |-> {}, newPassword |-> {}]}
    \cup {[newEmail |-> {e}, newPassword |-> {}] : e \in Emails}
    \cup {[newEmail |-> {}, newPassword |-> {w}] : w \in Passwords}

\* the email part of both: updateData.email and updateData.userName
CambiaEmail(user, newEmail) == newEmail # {} /\ Opt(newEmail, <<>>) # user.email

ConNuevoEmail(user, newEmail) ==
    IF CambiaEmail(user, newEmail)
    THEN [user EXCEPT !.email = Opt(newEmail, <<>>), !.userName = Opt(newEmail, <<>>)]
    ELSE user

\* prisma.usuario.update({ where: { id: userId }, data: updateData })
EscribeUsuario(op, userId, fila) ==
    IF ViolaUnique(usuarios, userId, fila.email, fila.userName)
    THEN Rechaza(op, "unique")
    ELSE /\ usuarios' = [usuarios EXCEPT ![userId] = fila]
         /\ respuesta' = Respuesta(op, "ok", "")
         /\ UNCHANGED uuids

\* the outcome of AuthService.updateCredentials on a table: the error ("" when
\* the call succeeds) and the row that is then written
AuthUpdateCredentialsDe(tabla, userId, currentPassword, payload) ==
    LET newEmail    == payload.newEmail
        newPassword == payload.newPassword
        user        == IF userId \in DOMAIN tabla THEN tabla[userId] ELSE SinFila
        fila        == [ConNuevoEmail(user, newEmail) EXCEPT
                           !.password = IF newPassword = {} THEN @
                                        ELSE BcryptHash(Opt(newPassword, ""))]
        error ==
            IF userId \notin DOMAIN tabla THEN "no_encontrado"
            ELSE IF ~user.activo THEN "desactivada"
            ELSE IF ~BcryptCompare(currentPassword, user.password)
            THEN "password_incorrecta"
            ELSE IF /\ CambiaEmail(user, newEmail)
                    /\ OtroActivoConEmail(tabla, userId, Opt(newEmail, <<>>))
            THEN "email_en_uso"
            ELSE IF newPassword # {} /\ BcryptCompare(Opt(newPassword, ""), user.password)
            THEN "password_igual"
            ELSE IF ViolaUnique(tabla, userId, fila.email, fila.userName) THEN "unique"
            ELSE "" IN
    [error |-> error, fila |-> fila]

AuthUpdateCredentials ==
    /\ \E userId \in IdsUsuarioPayload, currentPassword \in Passwords,
          payload \in PayloadsCredentials :
          LET op == "AuthService.updateCredentials"
              r  == AuthUpdateCredentialsDe(usuarios, userId, currentPassword, payload) IN
          IF r.error # "" THEN Rechaza(op, r.error)
          ELSE EscribeUsuario(op, userId, r.fila)
    /\ UNCHANGED <<varsOrden, varsPrecio, activo, bajas, peticion>>

UserUpdateCredentials ==
    /\ \E userId \in IdsUsuarioPayload, data \in PayloadsCredentials :
          LET op          == "UserService.updateCredentials"
              newEmail    == data.newEmail
              newPassword == data.newPassword IN
          IF userId \notin DOMAIN usuarios THEN Rechaza(op, "no_encontrado")
          ELSE LET user == usuarios[userId] IN
          IF ~user.activo THEN Rechaza(op, "desactivada")
          ELSE IF /\ CambiaEmail(user, newEmail)
                  /\ OtroActivoConEmail(usuarios, userId, Opt(newEmail, <<>>))
          THEN Rechaza(op, "email_en_uso")
          ELSE EscribeUsuario(op, userId,
                   [ConNuevoEmail(user, newEmail) EXCEPT
                       !.password = IF newPassword = {} THEN @
                                    ELSE SinHash(Opt(newPassword, ""))])
    /\ UNCHANGED <<varsOrden, varsPrecio, activo, bajas, peticion>>

\* ------------------------------------------- UserService.deactivateAccount
\* (mutation of DeactivateAccount: the call is recorded and the row is not written)
DeactivateAccountSinEfecto ==
    /\ uuids < MaxUuids
    /\ \E userId \in DOMAIN usuarios :
          /\ usuarios[userId].activo
          /\ bajas' = bajas \cup {<<"usuario", userId>>}
          /\ respuesta' = [Respuesta("deactivateAccount", "ok", "") EXCEPT
                              !.userId = userId, !.antes = usuarios[userId]]
    /\ uuids' = uuids + 1
    /\ UNCHANGED <<usuarios, varsOrden, varsPrecio, activo, peticion>>

DeactivateAccount ==
    /\ uuids < MaxUuids
    /\ \E userId \in IdsUsuarioPayload :
          LET op == "deactivateAccount" IN
          IF userId \notin DOMAIN usuarios
          THEN Rechaza(op, "no_encontrado") /\ UNCHANGED bajas
          ELSE IF ~usuarios[userId].activo
          THEN Rechaza(op, "ya_desactivada") /\ UNCHANGED bajas
          ELSE LET uniqueId == uuids + 1 IN
               /\ usuarios' = [usuarios EXCEPT ![userId] =
                      [@ EXCEPT !.activo = FALSE,
                                !.email = DeactivatedEmail(uniqueId),
                                !.userName = DeactivatedUserName(uniqueId),
                                !.fechaBaja = "fecha"]]
               /\ uuids' = uniqueId
               /\ respuesta' = [Respuesta(op, "ok", "") EXCEPT
                                   !.userId = userId, !.antes = usuarios[userId]]
               /\ bajas' = bajas \cup {<<"usuario", userId>>}
    /\ UNCHANGED <<varsOrden, varsPrecio, activo, peticion>>

\* ------------------------------------------- UserService.reactivateAccount
\* (mutation of DatosReactivacion: the anonymised email is kept)
DatosReactivacionSinEmail(usuario, newEmail, newUserName) ==
    [usuario EXCEPT !.activo = TRUE, !.fechaBaja = "null", !.userName = newUserName]

\* the data of the update that reactivates the account
DatosReactivacion(usuario, newEmail, newUserName) ==
    [usuario EXCEPT !.activo = TRUE, !.fechaBaja = "null",
                    !.email = newEmail, !.userName = newUserName]

RespuestaReactivar(userId, newEmail, newUserName, resultado, error) ==
    [op |-> "reactivateAccount", userId |-> userId, resultado |-> resultado,
     error |-> error, newEmail |-> newEmail, newUserName |-> newUserName,
     antes |-> IF userId \in DOMAIN usuarios THEN usuarios[userId] ELSE SinFila]

ReactivateAccountCon(emails, userNames) ==
    /\ \E userId \in IdsUsuarioPayload, newEmail \in emails, newUserName \in userNames :
          LET falla(error) ==
                  /\ respuesta' = RespuestaReactivar(userId, newEmail, newUserName,
                                                     "error", error)
                  /\ UNCHANGED <<usuarios, bajas>> IN
          IF userId \notin DOMAIN usuarios THEN falla("no_encontrado")
          ELSE IF usuarios[userId].activo THEN falla("ya_activa")
          ELSE IF OtroActivoConEmail(usuarios, userId, newEmail)
          THEN falla("email_en_uso")
          ELSE IF OtroActivoConUserName(usuarios, userId, newUserName)
          THEN falla("userName_en_uso")
          ELSE IF ViolaUnique(usuarios, userId, newEmail, newUserName)
          THEN falla("unique")
          ELSE /\ usuarios' = [usuarios EXCEPT ![userId] =
                      DatosReactivacion(@, newEmail, newUserName)]
               /\ respuesta' = RespuestaReactivar(userId, newEmail, newUserName, "ok", "")
               /\ bajas' = bajas \ {<<"usuario", userId>>}
    /\ UNCHANGED <<uuids, varsOrden, varsPrecio, activo, peticion>>

\* ================================================= delete and reactivate
NumFilas == 1

\* the tables whose rows carry nothing else that is modelled
Tablas == {"producto", "categoria", "imagen", "direccion", "localidad", "provincia"}
Filas == 1..NumFilas

\* what findById returns when it finds no row
Null == 0

\* update({ where: { id }, data: { activo: valor } }); a row that is not in the
\* table is not written
PonerActivo(tabla, id, valor) ==
    IF id \in DOMAIN activo[tabla] THEN [activo EXCEPT ![tabla][id] = valor] ELSE activo

\* delete(id) of the service of one of Tablas (deleteProduct, deleteCategory,
\* ImagenService.delete, AddressService.delete; LocationService.delete and
\* ProvinceService.delete write an active row only and answer an error or null
\* for an inactive one): the row is inactive afterwards
Delete(tabla, id) ==
    /\ activo' = PonerActivo(tabla, id, FALSE)
    /\ bajas' = bajas \cup {<<tabla, id>>}
    /\ UNCHANGED <<varsOrden, varsPrecio, varsUsuario>>

\* reactivate(id) of the service of one of Tablas (LocationService.reactivate
\* and ProvinceService.reactivate write an inactive row only): the row is
\* active afterwards
Reactivate(tabla, id) ==
    /\ activo' = PonerActivo(tabla, id, TRUE)
    /\ bajas' = bajas \ {<<tabla, id>>}
    /\ UNCHANGED <<varsOrden, varsPrecio, varsUsuario>>

\* AddressService.update with the activo of the payload: the update is refused
\* unless the row is active
AddressUpdate(id) ==
    /\ \E act \in {{}, {TRUE}, {FALSE}} :
          activo' = PonerActivo("direccion", id,
                                IF id \in DOMAIN activo["direccion"] /\ activo["direccion"][id]
                                THEN Opt(act, TRUE) ELSE FALSE)
    /\ UNCHANGED <<bajas, varsOrden, varsPrecio, varsUsuario>>

\* Direccion.usuarioId of the rows of table direccion: they belong to user 1
DireccionUsuarioId == [id \in Filas |-> 1]

\* prisma.direccion.delete / deleteMany: the rows ids leave the table
BorrarDirecciones(ids) ==
    [activo EXCEPT !["direccion"] =
        [id \in (DOMAIN activo["direccion"]) \ ids |-> activo["direccion"][id]]]

\* UserService.removeDireccionFromUser: the user is active and the address is
\* theirs, or the call fails
RemoveDireccionFromUser ==
    /\ \E userId \in IdsUsuarioPayload, direccionId \in Filas :
          IF /\ userId \in DOMAIN usuarios /\ usuarios[userId].activo
             /\ direccionId \in DOMAIN activo["direccion"]
             /\ DireccionUsuarioId[direccionId] = userId
          THEN activo' = BorrarDirecciones({direccionId})
          ELSE UNCHANGED activo
    /\ UNCHANGED <<bajas, varsOrden, varsPrecio, varsUsuario>>

\* UserService.updateProfile with data.addresses: nothing, or the addresses of
\* the payload that carry an id (idsToKeep; none of them for an empty array);
\* the addresses of the user that are not among them are deleted
UpdateProfile ==
    /\ \E userId \in IdsUsuarioPayload, addresses \in {{}} \cup {{k} : k \in SUBSET Filas} :
          IF userId \in DOMAIN usuarios /\ usuarios[userId].activo /\ addresses # {}
          THEN LET idsToKeep   == Opt(addresses, {})
                   idsToDelete == {d \in DOMAIN activo["direccion"] :
                                      /\ DireccionUsuarioId[d] = userId
                                      /\ d \notin idsToKeep} IN
               activo' = BorrarDirecciones(idsToDelete)
          ELSE UNCHANGED activo
    /\ UNCHANGED <<bajas, varsOrden, varsPrecio, varsUsuario>>

\* ProductDetailService.update with the activo of the payload: refused unless
\* the row is active
ProductDetailUpdate(v) ==
    /\ \E act \in {{}, {TRUE}, {FALSE}} :
          pdActivo' = [pdActivo EXCEPT ![v] = IF @ THEN Opt(act, TRUE) ELSE FALSE]
    /\ UNCHANGED <<stockActual, ordenCompra, ordenCompraDetalle, descontadas, req>>
    /\ UNCHANGED fueraDeOrden

\* OrderService.delete / reactivate: the order row alone
OrderDelete(o) ==
    /\ ordenCompra' = [ordenCompra EXCEPT ![o].activo = FALSE]
    /\ bajas' = bajas \cup {<<"orden_compra", o>>}
    /\ UNCHANGED <<stockActual, pdActivo, ordenCompraDetalle, descontadas, req>>
    /\ UNCHANGED <<varsPrecio, activo, varsUsuario>>

OrderReactivate(o) ==
    /\ ordenCompra' = [ordenCompra EXCEPT ![o].activo = TRUE]
    /\ bajas' = bajas \ {<<"orden_compra", o>>}
    /\ UNCHANGED <<stockActual, pdActivo, ordenCompraDetalle, descontadas, req>>
    /\ UNCHANGED <<varsPrecio, activo, varsUsuario>>

\* an increment that writes nothing
IncrementNada(s, v, n) == s

\* prisma.productoDetalle.update({ data: { stockActual: { increment: n } } })
Increment(s, v, n) == [s EXCEPT ![v] = @ + n]

\* OrderDetailService.delete: an error unless the line is active; the stock of
\* its variant goes up by cantidad and the line is deactivated
OrderDetailDelete(i) ==
    IF i \in DOMAIN ordenCompraDetalle /\ ordenCompraDetalle[i].activo
    THEN /\ stockActual' = Increment(stockActual, ordenCompraDetalle[i].productoDetalleId,
                                     ordenCompraDetalle[i].cantidad)
         /\ ordenCompraDetalle' = [ordenCompraDetalle EXCEPT ![i].activo = FALSE]
         /\ descontadas' = descontadas \ {i}
         /\ bajas' = bajas \cup {<<"orden_compra_detalle", i>>}
         /\ UNCHANGED <<pdActivo, ordenCompra, req>>
         /\ UNCHANGED <<varsPrecio, activo, varsUsuario>>
    ELSE UNCHANGED vars

\* OrderDetailService.reactivate: an error unless the line is inactive and the
\* stock covers its cantidad; the stock goes down again and the line is active
OrderDetailReactivate(i) ==
    LET linea == ordenCompraDetalle[i] IN
    IF /\ i \in DOMAIN ordenCompraDetalle
       /\ ~linea.activo
       /\ ~StockInsuficiente(stockActual[linea.productoDetalleId], linea.cantidad)
    THEN /\ stockActual' = Decrement(stockActual, linea.productoDetalleId, linea.cantidad)
         /\ ordenCompraDetalle' = [ordenCompraDetalle EXCEPT ![i].activo = TRUE]
         /\ descontadas' = descontadas \cup {i}
         /\ bajas' = bajas \ {<<"orden_compra_detalle", i>>}
         /\ UNCHANGED <<pdActivo, ordenCompra, req>>
         /\ UNCHANGED <<varsPrecio, activo, varsUsuario>>
    ELSE UNCHANGED vars

\* OrderDetailService.update(id, { cantidad }): an error unless the line is
\* active; a cantidad other than the line's moves the stock of its variant by
\* the difference, after the stock check of an increase, and sets the cantidad
\* and the subtotal of the line. The call and its outcome are in respuesta.
OrderDetailUpdate(id, cantidad) ==
    LET existe == id \in DOMAIN ordenCompraDetalle /\ ordenCompraDetalle[id].activo
        resp(resultado, error) ==
            [op |-> "OrderDetailService.update", id |-> id, cantidad |-> cantidad,
             resultado |-> resultado, error |-> error,
             antes |-> [stockActual |-> stockActual,
                        ordenCompraDetalle |-> ordenCompraDetalle]]
        falla(error) ==
            /\ respuesta' = resp("error", error)
            /\ UNCHANGED <<stockActual, ordenCompraDetalle>> IN
    /\ IF ~existe THEN falla("no_encontrado")
       ELSE LET existingDetalle == ordenCompraDetalle[id]
                pd          == existingDetalle.productoDetalleId
                oldCantidad == existingDetalle.cantidad
                stockDelta  == cantidad - oldCantidad IN
            IF cantidad = oldCantidad
            THEN respuesta' = resp("ok", "") /\ UNCHANGED <<stockActual, ordenCompraDetalle>>
            ELSE IF stockDelta > 0 /\ StockInsuficiente(stockActual[pd], stockDelta)
            THEN falla("stock_insuficiente")
            ELSE /\ stockActual' = Decrement(stockActual, pd, stockDelta)
                 /\ ordenCompraDetalle' =
                        [ordenCompraDetalle EXCEPT ![id].cantidad = cantidad,
                                                   ![id].subtotal = PrecioCompra[pd] * cantidad]
                 /\ respuesta' = resp("ok", "")
    /\ UNCHANGED <<pdActivo, ordenCompra, descontadas, req>>
    /\ UNCHANGED <<varsPrecio, activo, usuarios, uuids, peticion, bajas>>

\* DiscountService.delete / reactivate
DiscountDelete(id) ==
    /\ descuentos' = [descuentos EXCEPT ![id].activo = FALSE]
    /\ consulta' = SinConsulta
    /\ bajas' = bajas \cup {<<"descuento", id>>}
    /\ UNCHANGED <<tz, varsOrden, activo, varsUsuario>>

DiscountReactivate(id) ==
    /\ descuentos' = [descuentos EXCEPT ![id].activo = TRUE]
    /\ consulta' = SinConsulta
    /\ bajas' = bajas \ {<<"descuento", id>>}
    /\ UNCHANGED <<tz, varsOrden, activo, varsUsuario>>

\* ------------------------------------------------------- the queries
\* (mutation of FindById: the row is looked up by id alone)
FindByIdSinFiltro(tabla, id) == IF id \in DOMAIN activo[tabla] THEN id ELSE Null

\* findById(id) of the service of one of Tablas (getCategoryById for the
\* categories): findUnique({ where: { id, activo: true } })
FindById(tabla, id) ==
    IF id \in DOMAIN activo[tabla] /\ activo[tabla][id] THEN id ELSE Null

\* the default list of the service of one of Tablas (findAll, getAllCategories):
\* findMany({ where: { activo: true } })
FindAll(tabla) == {id \in DOMAIN activo[tabla] : activo[tabla][id]}

\* findById and the default list of the services of the other tables
ProductDetailFindById(id) == IF id \in Variantes /\ pdActivo[id] THEN id ELSE Null
ProductDetailFindAllByProductoId == {v \in Variantes : pdActivo[v]}
OrderFindById(id) ==
    IF id \in DOMAIN ordenCompra /\ ordenCompra[id].activo THEN id ELSE Null
OrderObtenerPorFecha == {o \in DOMAIN ordenCompra : ordenCompra[o].activo}
OrderDetailFindById(id) ==
    IF id \in DOMAIN ordenCompraDetalle /\ ordenCompraDetalle[id].activo THEN id ELSE Null
OrderDetailFindAll == {i \in DOMAIN ordenCompraDetalle : ordenCompraDetalle[i].activo}
DiscountFindById(id) ==
    IF id \in DOMAIN descuentos /\ descuentos[id].activo THEN id ELSE Null
DiscountFindAll == {i \in DOMAIN descuentos : descuentos[i].activo}
\* AuthService.login: the id of the active user with the email whose password
\* matches, Null when the call throws
AuthLogin(email, password) ==
    LET found == {u \in DOMAIN usuarios : usuarios[u].email = email /\ usuarios[u].activo} IN
    IF found = {} THEN Null
    ELSE LET user == CHOOSE u \in found : TRUE IN
         IF BcryptCompare(password, usuarios[user].password) THEN user ELSE Null

UserFindById(id) ==
    IF id \in DOMAIN usuarios /\ usuarios[id].activo THEN id ELSE Null
UserFindAll == {u \in DOMAIN usuarios : usuarios[u].activo}

\* OrderDetailService.findByOrderId: the order is looked up by id alone, then its
\* active lines are returned (the empty set stands for the error too)
FindByOrderId(ordenCompraId) ==
    IF ordenCompraId \notin DOMAIN ordenCompra THEN {}
    ELSE {i \in DOMAIN ordenCompraDetalle :
              /\ ordenCompraDetalle[i].ordenCompraId = ordenCompraId
              /\ ordenCompraDetalle[i].activo}

\* OrderDetailService.findById and findByOrderId as called by currentUser uid:
\* the error thrown ("" for none) and the lines returned
OrderDetailFindByIdComo(id, uid) ==
    LET detalle == OrderDetailFindById(id) IN
    IF detalle = Null THEN [error |-> "", filas |-> {}]
    ELSE IF NoAutorizado(RolDe[uid], uid,
                         ordenCompra[ordenCompraDetalle[detalle].ordenCompraId])
    THEN [error |-> "no_autorizado", filas |-> {}]
    ELSE [error |-> "", filas |-> {detalle}]

FindByOrderIdComo(ordenCompraId, uid) ==
    IF ordenCompraId \notin DOMAIN ordenCompra
    THEN [error |-> "orden_no_encontrada", filas |-> {}]
    ELSE IF NoAutorizado(RolDe[uid], uid, ordenCompra[ordenCompraId])
    THEN [error |-> "no_autorizado", filas |-> {}]
    ELSE [error |-> "", filas |-> FindByOrderId(ordenCompraId)]

\* A product row read with include: { categorias, imagenes, productos_detalles }
\* and mapped by mapearProductoADTO: every related row, whatever its activo.
\* Product id has the category and the image of its id and every variant.
ProductoDTO(id) ==
    [id |-> id,
     categorias |-> {id} \cap DOMAIN activo["categoria"],
     imagenes |-> {id} \cap DOMAIN activo["imagen"],
     productos_detalles |-> Variantes]

ObtenerTodosLosProductosDTO == {ProductoDTO(id) : id \in FindAll("producto")}

ObtenerProductoDTOPorId(id) ==
    IF FindById("producto", id) = Null THEN {} ELSE {ProductoDTO(id)}

\* filtrarYOrdenarProductos: with a filter on the variants (colour, size or
\* stock) a product needs an active variant that matches; no filter on the
\* rows included
FiltrarYOrdenarProductos(conFiltroDeDetalle) ==
    {ProductoDTO(id) : id \in {p \in FindAll("producto") :
        conFiltroDeDetalle => \E v \in Variantes : pdActivo[v]}}

\* ========================================================= middlewares
\* routes registered with verifyJWT, authorizeRoles([Rol.ADMIN]) and a handler
\* that calls a service: the update, delete and reactivate routes of each router
RutasAdmin ==
    {"PUT /descuentos/:id", "DELETE /descuentos/:id",
     "PATCH /descuentos/reactivate/:id",
     "DELETE /categorias/:id", "PATCH /categorias/reactivate/:id",
     "DELETE /localidades/:id", "PATCH /localidades/reactivate/:id",
     "DELETE /imagenes/:id", "PATCH /imagenes/reactivate/:id",
     "PUT /orden_compra_detalle/:id", "DELETE /orden_compra_detalle/:id",
     "PATCH /orden_compra_detalle/reactivate/:id",
     "PUT /usuarios/admin/deactivate/:userId", "PUT /usuarios/admin/reactivate/:userId"}

\* (mutation of VerifyToken: the expiry is not checked)
VerifyTokenSinExpiracion(token, ahora) ==
    IF token.firma # "JWT_SECRET" THEN "invalido" ELSE "ok"

\* JwtService.verifyToken: jwt.verify checks the signature against JWT_SECRET
\* and then the expiry against the clock
VerifyToken(token, ahora) ==
    IF token.firma # "JWT_SECRET" THEN "invalido"
    ELSE IF ahora >= token.exp THEN "expirado"
    ELSE "ok"

\* verifyJWT, the first middleware of every one of the routes, when the clock
\* reads 1: the Authorization header has no value, another scheme, or 'Bearer '
\* and a token; the query of UserService.findById may throw
VerifyJWT ==
    /\ \E header \in {[esquema |-> e, token |-> {}] : e \in {"none", "Basic"}}
                     \cup {[esquema |-> "Bearer", token |-> {t}] :
                              t \in [id : IdsUsuarioPayload,
                                     email : {<<"ana@mail.com">>, <<"beto@mail.com">>},
                                     firma : {"JWT_SECRET", "otra"}, exp : {1, 2}]} :
          LET res(status) ==
                  peticion' = [ruta |-> "", header |-> header, ahora |-> 1,
                               pc |-> "fin", status |-> status, user |-> 0] IN
          IF header.esquema # "Bearer" THEN res(401)
          ELSE LET payload == CHOOSE t \in header.token : TRUE
                   user    == UserFindById(payload.id) IN
               IF VerifyToken(payload, 1) # "ok" THEN res(401)
               ELSE \/ res(500)
                    \/ IF user = Null \/ usuarios[user].email # payload.email
                       THEN res(401)
                       ELSE peticion' = [ruta |-> "", header |-> header, ahora |-> 1,
                                         pc |-> "authorizeRoles", status |-> 0,
                                         user |-> user]
    /\ UNCHANGED <<usuarios, uuids, respuesta, bajas, activo, varsOrden, varsPrecio>>

\* (mutation of AuthorizeRoles: every authenticated user goes on)
AuthorizeRolesSinRol(ruta) ==
    /\ peticion.pc = "authorizeRoles"
    /\ peticion' = [peticion EXCEPT !.ruta = ruta, !.pc = "handler"]
    /\ UNCHANGED <<usuarios, uuids, respuesta, bajas, activo, varsOrden, varsPrecio>>

\* authorizeRoles([Rol.ADMIN]), the second middleware of the route the request
\* is for: req.user is the row verifyJWT loaded
AuthorizeRoles(ruta) ==
    /\ peticion.pc = "authorizeRoles"
    /\ peticion' =
          IF peticion.user = 0 \/ RolDe[peticion.user] \notin {"ADMIN"}
          THEN [peticion EXCEPT !.ruta = ruta, !.pc = "fin", !.status = 403]
          ELSE [peticion EXCEPT !.ruta = ruta, !.pc = "handler"]
    /\ UNCHANGED <<usuarios, uuids, respuesta, bajas, activo, varsOrden, varsPrecio>>

\* the handler of the route, reached through next(): it calls the service with
\* the parameters and the body of the request
Handler(ruta) ==
    /\ peticion.pc = "handler"
    /\ peticion.ruta = ruta
    /\ \/ ruta = "PUT /descuentos/:id"
          /\ DiscountUpdateCon({[SinCambios EXCEPT !.activo = {v}] : v \in BOOLEAN})
       \/ ruta = "DELETE /descuentos/:id"
          /\ \E id \in DOMAIN descuentos : DiscountDelete(id)
       \/ ruta = "PATCH /descuentos/reactivate/:id"
          /\ \E id \in DOMAIN descuentos : DiscountReactivate(id)
       \/ \E id \in Filas :
             \/ ruta = "DELETE /categorias/:id" /\ Delete("categoria", id)
             \/ ruta = "PATCH /categorias/reactivate/:id" /\ Reactivate("categoria", id)
             \/ ruta = "DELETE /localidades/:id" /\ Delete("localidad", id)
             \/ ruta = "PATCH /localidades/reactivate/:id" /\ Reactivate("localidad", id)
             \/ ruta = "DELETE /imagenes/:id" /\ Delete("imagen", id)
             \/ ruta = "PATCH /imagenes/reactivate/:id" /\ Reactivate("imagen", id)
       \/ ruta = "PUT /orden_compra_detalle/:id"
          /\ \E id \in DOMAIN ordenCompraDetalle, c \in Cantidades :
                OrderDetailUpdate(id, c)
       \/ ruta = "DELETE /orden_compra_detalle/:id"
          /\ \E i \in DOMAIN ordenCompraDetalle : OrderDetailDelete(i)
       \/ ruta = "PATCH /orden_compra_detalle/reactivate/:id"
          /\ \E i \in DOMAIN ordenCompraDetalle : OrderDetailReactivate(i)
       \/ ruta = "PUT /usuarios/admin/deactivate/:userId" /\ DeactivateAccount
       \/ ruta = "PUT /usuarios/admin/reactivate/:userId"
          /\ ReactivateAccountCon({<<"beto@mail.com">>}, {<<"beto@mail.com">>})

\* ------------------------------------------------------------------ Init
OrdenSembrada == [total |-> 0, activo |-> TRUE, usuarioId |-> 2]

InitOrden ==
    /\ stockActual = [v \in Variantes |-> StockInicial]
    /\ pdActivo = [v \in Variantes |-> TRUE]
    /\ ordenCompra = <<OrdenSembrada>>
    /\ ordenCompraDetalle = <<>>
    /\ descontadas = {}
    /\ req = [r \in Reqs |-> ReqLibre]

InitPrecioEn(zonas) ==
    /\ tz \in zonas
    /\ descuentos = <<>>
    /\ consulta = SinConsulta

\* every row of Tablas active, nothing deleted, no account yet
InitTablas ==
    /\ activo = [t \in Tablas |-> [id \in Filas |-> TRUE]]
    /\ bajas = {}
    /\ usuarios = <<>>
    /\ uuids = 0
    /\ respuesta = SinRespuesta
    /\ peticion = [ruta |-> "", header |-> [esquema |-> "none", token |-> {}], ahora |-> 0,
                   pc |-> "ninguna", status |-> 0, user |-> 0]

\* the order handlers read no clock: one time zone stands for all
Init == InitOrden /\ InitPrecioEn({0}) /\ InitTablas

Avanza(r) ==
    \/ CreateOrden(r)
    \/ CreateProducto(r)
    \/ CreateInsertar(r)
    \/ CreateDescontar(r)
    \/ CrearValidar(r)
    \/ CrearInsertar(r)
    \/ CrearDescontar(r)
    \/ Fallo(r)
    \/ Responder(r)

Paso(r) ==
    \/ CreateLlamarCon(r, UsuarioIds, IdsOrdenPayload, IdsVariantePayload)
    \/ CrearLlamarCon(r, PayloadsDetalles(IdsVariantePayload))
    \/ Avanza(r)

Admin ==
    \E v \in Variantes : ProductDetailDelete(v) \/ ProductDetailReactivate(v)

\* one request at a time: a call runs to its end before the next one starts
Next ==
    \/ Paso(1)
    \/ (~EnVuelo(1) /\ Admin)

Spec == Init /\ [][Next]_vars

\* the steps of the requests interleave at every await
\* (requests of an ADMIN on the existing order and the existing variants)
NextConc ==
    \E r \in Reqs :
        \/ CreateLlamarCon(r, {1}, DOMAIN ordenCompra, Variantes)
        \/ CrearLlamarCon(r, PayloadsDetalles(Variantes))
        \/ Avanza(r)

SpecConc == Init /\ [][NextConc]_vars

\* the discounts and the price of a product, in any of the time zones
NextPrecio ==
    \/ DiscountCreate
    \/ DiscountUpdateCon(PayloadsUpdateDescuento)
    \/ MapearProductoADTO

InitPrecio == InitOrden /\ InitPrecioEn(ZonasHorarias) /\ InitTablas

SpecPrecio == InitPrecio /\ [][NextPrecio]_vars

\* the accounts: one call of AuthService or UserService after the other
NextUsuario ==
    \/ AuthRegister
    \/ UserCreate
    \/ AuthUpdateCredentials
    \/ UserUpdateCredentials
    \/ DeactivateAccount
    \/ ReactivateAccountCon(Emails, Emails)

SpecUsuario == Init /\ [][NextUsuario]_vars

\* the rows are there: an order of user 2 with one line of one unit of variant 1
\* (deducted from its stock), a discount, a registered user and the rows of Tablas
DescuentoSembrado ==
    [denominacion |-> "Promo", fechaDesde |-> 1, fechaHasta |-> 1,
     horaDesde |-> 10 * 3600, horaHasta |-> 21 * 3600, precioPromocional |-> 10,
     activo |-> {}]

UsuarioSembrado ==
    FilaUsuario(<<"ana@mail.com">>, <<"ana@mail.com">>, BcryptHash("clave1"), TRUE)

InitBaja ==
    /\ stockActual = Decrement([v \in Variantes |-> StockInicial], 1, 1)
    /\ pdActivo = [v \in Variantes |-> TRUE]
    /\ ordenCompra = <<OrdenSembrada>>
    /\ ordenCompraDetalle = <<NuevoDetalle(1, 1, 1, PrecioCompra[1])>>
    /\ descontadas = {1}
    /\ req = [r \in Reqs |-> ReqLibre]
    /\ tz = 0
    /\ descuentos = <<FilaDescuento(DescuentoSembrado)>>
    /\ consulta = SinConsulta
    /\ activo = [t \in Tablas |-> [id \in Filas |-> TRUE]]
    /\ bajas = {}
    /\ usuarios = <<UsuarioSembrado>>
    /\ uuids = 0
    /\ respuesta = Respuesta("register", "ok", "")
    /\ peticion = [ruta |-> "", header |-> [esquema |-> "none", token |-> {}], ahora |-> 0,
                   pc |-> "ninguna", status |-> 0, user |-> 0]

\* the deletes, the reactivations and the updates of activo, of every service
NextBaja ==
    \/ \E v \in Variantes :
          ProductDetailDelete(v) \/ ProductDetailReactivate(v) \/ ProductDetailUpdate(v)
    \/ \E o \in DOMAIN ordenCompra : OrderDelete(o) \/ OrderReactivate(o)
    \/ \E i \in DOMAIN ordenCompraDetalle : OrderDetailDelete(i) \/ OrderDetailReactivate(i)
    \/ \E id \in DOMAIN descuentos : DiscountDelete(id) \/ DiscountReactivate(id)
    \/ DiscountUpdateCon({[SinCambios EXCEPT !.activo = {v}] : v \in BOOLEAN})
    \/ \E tabla \in Tablas, id \in Filas : Delete(tabla, id) \/ Reactivate(tabla, id)
    \/ \E id \in Filas : AddressUpdate(id)
    \/ DeactivateAccount
    \/ ReactivateAccountCon({<<"beto@mail.com">>}, {<<"beto@mail.com">>})

SpecBaja == InitBaja /\ [][NextBaja]_vars

\* ------------------------------------------------ the same with the profile
\* every operation of NextBaja and the operations on the addresses of a user
NextPerfil == NextBaja \/ RemoveDireccionFromUser \/ UpdateProfile

SpecPerfil == InitBaja /\ [][NextPerfil]_vars

\* ------------------------------------------- the order lines, one call
\* at a time: OrderDetailService.create, update, delete and reactivate
NextLinea ==
    \/ CreateLlamarCon(1, UsuarioIds, IdsOrdenPayload, IdsVariantePayload)
    \/ CreateOrden(1)
    \/ CreateProducto(1)
    \/ CreateInsertar(1)
    \/ CreateDescontar(1)
    \/ Responder(1)
    \/ /\ ~EnVuelo(1)
       /\ \/ \E id \in 1..(MaxDetalles + 1), c \in 0..(MaxCantidad + 1) :
                OrderDetailUpdate(id, c)
          \/ \E i \in 1..(MaxDetalles + 1) :
                OrderDetailDelete(i) \/ OrderDetailReactivate(i)

SpecLinea == Init /\ [][NextLinea]_vars

\* ------------------------------ the categories and their subcategories
NumCategorias == 2

\* Categoria.categoriaPadreId of each row, 0 for null: row 1 is a root category
\* and every other row a subcategory of it
CategoriaPadreId == [id \in 1..NumCategorias |-> IF id = 1 THEN 0 ELSE 1]

InitCategoria ==
    /\ InitOrden /\ InitPrecioEn({0})
    /\ activo = [t \in Tablas |->
                    [id \in (IF t = "categoria" THEN 1..NumCategorias ELSE Filas) |-> TRUE]]
    /\ bajas = {}
    /\ usuarios = <<>>
    /\ uuids = 0
    /\ respuesta = SinRespuesta
    /\ peticion = [ruta |-> "", header |-> [esquema |-> "none", token |-> {}], ahora |-> 0,
                   pc |-> "ninguna", status |-> 0, user |-> 0]

\* CategoryService.deleteCategory and reactivateCategory, with the delete and
\* reactivate of the other services of one table
NextCategoria ==
    \E tabla \in Tablas : \E id \in DOMAIN activo[tabla] :
        Delete(tabla, id) \/ Reactivate(tabla, id)

SpecCategoria == InitCategoria /\ [][NextCategoria]_vars

\* ------------------------------------------------ the routers, GET
\* the layers of each router in the order of their registration (router.get,
\* router.post, ...): the method, the path pattern by segments and the route
Capa(metodo, patron, ruta) == [metodo |-> metodo, patron |-> patron, ruta |-> ruta]

Capas ==
    [router \in {"/categorias", "/orden_compra", "/product_details"} |->
        IF router = "/categorias"
        THEN << Capa("GET", <<>>, "GET /categorias/"),
                Capa("GET", <<":id">>, "GET /categorias/:id"),
                Capa("GET", <<"root">>, "GET /categorias/root"),
                Capa("GET", <<":id", "subcategories">>, "GET /categorias/:id/subcategories"),
                Capa("POST", <<>>, "POST /categorias/"),
                Capa("PUT", <<":id">>, "PUT /categorias/:id"),
                Capa("DELETE", <<":id">>, "DELETE /categorias/:id"),
                Capa("PATCH", <<"reactivate", ":id">>, "PATCH /categorias/reactivate/:id") >>
        ELSE IF router = "/orden_compra"
        THEN << Capa("POST", <<>>, "POST /orden_compra/"),
                Capa("GET", <<":id">>, "GET /orden_compra/:id"),
                Capa("PUT", <<":id">>, "PUT /orden_compra/:id"),
                Capa("DELETE", <<":id">>, "DELETE /orden_compra/:id"),
                Capa("PATCH", <<"reactivate", ":id">>, "PATCH /orden_compra/reactivate/:id"),
                Capa("GET", <<"fecha">>, "GET /orden_compra/fecha") >>
        ELSE << Capa("POST", <<>>, "POST /product_details/"),
                Capa("GET", <<":id">>, "GET /product_details/:id"),
                Capa("PUT", <<":id">>, "PUT /product_details/:id"),
                Capa("DELETE", <<":id">>, "DELETE /product_details/:id"),
                Capa("PATCH", <<"reactivate", ":id">>, "PATCH /product_details/reactivate/:id"),
                Capa("GET", <<"producto", ":id">>, "GET /product_details/producto/:productoId"),
                Capa("GET", <<"buscar">>, "GET /product_details/buscar"),
                Capa("GET", <<"stock-mayor-a", ":id">>,
                     "GET /product_details/stock-mayor-a/:stockMinimo"),
                Capa("GET", <<"filtrar">>, "GET /product_details/filtrar"),
                Capa("GET", <<"talles", ":id">>, "GET /product_details/talles/:productoId"),
                Capa("GET", <<"colores", ":id">>, "GET /product_details/colores/:productoId"),
                Capa("POST", <<"descontar-stock">>, "POST /product_details/descontar-stock"),
                Capa("GET", <<"disponible">>, "GET /product_details/disponible") >>]

\* Express's dispatch inside a router: the first layer, in registration order,
\* whose method is the request's and whose pattern matches the path segment by
\* segment, a parameter (":id") matching any segment; 0 when no layer matches
Despachar(router, metodo, path) ==
    LET coincide(capa) ==
            /\ capa.metodo = metodo
            /\ Len(capa.patron) = Len(path)
            /\ \A i \in DOMAIN path : capa.patron[i] \in {":id", path[i]}
        candidatas == {i \in DOMAIN Capas[router] : coincide(Capas[router][i])} IN
    IF candidatas = {} THEN 0
    ELSE CHOOSE i \in candidatas : \A j \in candidatas : i <= j

\* the paths of the GET requests
PathsGet ==
    {<<>>, <<"1">>, <<"2">>, <<"root">>, <<"fecha">>, <<"buscar">>, <<"filtrar">>,
     <<"disponible">>, <<"1", "subcategories">>, <<"producto", "1">>}

\* a GET request to a router is answered by the handler of the layer it is
\* dispatched to, none of which calls next(): the route that handled it and the
\* status are recorded. The handlers of '/:id' parse the id (parseInt) and
\* answer 400 (categories, product details) or run the lookup with NaN (orders)
\* when it is not a number, and 404 when the row is missing or inactive.
Get ==
    /\ \E router \in DOMAIN Capas, path \in PathsGet :
          LET i        == Despachar(router, "GET", path)
              ruta     == IF i = 0 THEN "" ELSE Capas[router][i].ruta
              parseInt == IF path = <<"1">> THEN 1 ELSE IF path = <<"2">> THEN 2 ELSE 0
              porId(existe) ==
                  IF parseInt = 0
                  THEN (IF router = "/orden_compra" THEN {404, 500} ELSE {400})
                  ELSE IF existe THEN {200} ELSE {404}
              estados ==
                  IF i = 0 THEN {404}
                  ELSE IF ruta = "GET /categorias/:id"
                  THEN porId(FindById("categoria", parseInt) # Null)
                  ELSE IF ruta = "GET /orden_compra/:id"
                  THEN porId(OrderFindById(parseInt) # Null)
                  ELSE IF ruta = "GET /product_details/:id"
                  THEN porId(ProductDetailFindById(parseInt) # Null)
                  ELSE {200} IN
          \E status \in estados :
              peticion' = [ruta |-> ruta, header |-> [esquema |-> "none", token |-> {}],
                           ahora |-> 0, pc |-> "fin", status |-> status, user |-> 0,
                           url |-> [router |-> router, path |-> path]]
    /\ UNCHANGED <<usuarios, uuids, respuesta, bajas, activo, varsOrden, varsPrecio>>

NextRutas == Get \/ NextCategoria

SpecRutas == InitCategoria /\ [][NextRutas]_vars

\* ---------------- concurrent requests to ProductDetailService.descontarStock
NextDescontar ==
    \E r \in Reqs : DescontarStockLlamar(r) \/ DescontarStock(r)

SpecDescontar == Init /\ [][NextDescontar]_vars

\* ------------------------------------ the guarded routes and the accounts
NextAuth ==
    \/ VerifyJWT
    \/ \E ruta \in RutasAdmin : AuthorizeRoles(ruta) \/ Handler(ruta)

\* the rows of InitBaja and a second account: user 1 is an ADMIN, user 2 a CLIENTE
InitAuth ==
    /\ stockActual = Decrement([v \in Variantes |-> StockInicial], 1, 1)
    /\ pdActivo = [v \in Variantes |-> TRUE]
    /\ ordenCompra = <<OrdenSembrada>>
    /\ ordenCompraDetalle = <<NuevoDetalle(1, 1, 1, PrecioCompra[1])>>
    /\ descontadas = {1}
    /\ req = [r \in Reqs |-> ReqLibre]
    /\ tz = 0
    /\ descuentos = <<FilaDescuento(DescuentoSembrado)>>
    /\ consulta = SinConsulta
    /\ activo = [t \in Tablas |-> [id \in Filas |-> TRUE]]
    /\ bajas = {}
    /\ usuarios = <<UsuarioSembrado,
                    FilaUsuario(<<"beto@mail.com">>, <<"beto@mail.com">>,
                                BcryptHash("clave2"), TRUE)>>
    /\ uuids = 0
    /\ respuesta = Respuesta("register", "ok", "")
    /\ peticion = [ruta |-> "", header |-> [esquema |-> "none", token |-> {}], ahora |-> 0,
                   pc |-> "ninguna", status |-> 0, user |-> 0]

SpecAuth == InitAuth /\ [][NextAuth]_vars

\* PUT /auth/reactivate: verifyJWT, then the handler, which calls
\* UserService.reactivateAccount(req.user.id, newEmail) with the email of the
\* body and no newUserName
AuthReactivate ==
    /\ peticion.pc = "authorizeRoles"
    /\ ReactivateAccountCon({<<"caro@mail.com">>}, {<<>>})
    /\ respuesta'.userId = peticion.user

\* the guarded routes with PUT /auth/reactivate
NextSesion == NextAuth \/ AuthReactivate

SpecSesion == InitAuth /\ [][NextSesion]_vars

\* ================================================================ claims
CreateTerminado(r) == req[r].op = "create" /\ req[r].pc = "done"
CrearTerminado(r) == req[r].op = "crear" /\ req[r].pc = "done"

\* the sum of the cantidades of the payload lines that name variant v
RECURSIVE CantidadPedida(_, _, _)
CantidadPedida(detalles, v, i) ==
    IF i > Len(detalles) THEN 0
    ELSE (IF detalles[i].productoDetalleId = v THEN detalles[i].cantidad ELSE 0)
         + CantidadPedida(detalles, v, i + 1)

\* C1: when OrderDetailService.create succeeds, the stockActual of the variant is
\* its value before the call minus cantidad, no other variant's stock has changed,
\* and exactly one new order line exists: active, with that cantidad.
C1_CreateDescuentaStock ==
    \A r \in Reqs :
        (CreateTerminado(r) /\ req[r].resultado = "ok") =>
            LET a == req[r].antes
                n == Len(ordenCompraDetalle) IN
            /\ stockActual = [a.stockActual EXCEPT
                                 ![req[r].productoDetalleId] = @ - req[r].cantidad]
            /\ n = a.nDetalles + 1
            /\ ordenCompraDetalle[n].activo
            /\ ordenCompraDetalle[n].cantidad = req[r].cantidad
            /\ ordenCompraDetalle[n].productoDetalleId = req[r].productoDetalleId
            /\ ordenCompraDetalle[n].ordenCompraId = req[r].ordenCompraId

C1_Witness ==
    \E r \in Reqs : CreateTerminado(r) /\ req[r].resultado = "ok" /\ req[r].cantidad > 1

\* C2: OrderDetailService.create called with cantidad greater than the variant's
\* stockActual fails with an error, inserts no order line and changes no stock.
C2_CreateStockInsuficiente ==
    \A r \in Reqs :
        (/\ CreateTerminado(r)
         /\ req[r].productoDetalleId \in Variantes
         /\ req[r].cantidad > req[r].antes.stockActual[req[r].productoDetalleId]) =>
            /\ req[r].resultado = "error"
            /\ stockActual = req[r].antes.stockActual
            /\ Len(ordenCompraDetalle) = req[r].antes.nDetalles

C2_Witness ==
    \E r \in Reqs : CreateTerminado(r) /\ req[r].error = "stock_insuficiente"

C4_LineaYStockAtomicos ==
    \A i \in DOMAIN ordenCompraDetalle :
        ordenCompraDetalle[i].activo => i \in descontadas

\* the window of a discount as DiscountService reads the row back (the dates by
\* toISOString, the hours by formatTimeForValidation) holds the instant hoy, read
\* on the server's clock: its day within [fechaDesde, fechaHasta] and its time
\* of day within [horaDesde, horaHasta]
EnVentana(descuento, hoy) ==
    LET dia == (hoy + TzMs) \div MsDia
        seg == SegundosLocales(hoy) IN
    /\ FechaISO(descuento.fechaDesde) <= dia
    /\ dia <= FechaISO(descuento.fechaHasta)
    /\ FormatTimeForValidation(descuento.horaDesde) <= seg
    /\ seg <= FormatTimeForValidation(descuento.horaHasta)

EnAlgunaVentana ==
    \E i \in DOMAIN descuentos : EnVentana(descuentos[i], consulta.hoy)

\* the least of the discounted prices of the discounts whose window holds hoy
MenorPrecioEnVentana ==
    LET precios == {PrecioAplicando(consulta.precioVenta, descuentos[i].precioPromocional) :
                       i \in {j \in DOMAIN descuentos :
                                  EnVentana(descuentos[j], consulta.hoy)}} IN
    CHOOSE p \in precios : \A q \in precios : p <= q

\* C5: calcularPrecioFinal returns exactly precioVenta when the current instant is
\* outside the date/time window of every discount of the product (also when
\* tienePromocion is false or the product has no discounts).
C5_PrecioFueraDeVentana ==
    (consulta.hecha /\ (~consulta.tienePromocion \/ ~EnAlgunaVentana)) =>
        consulta.precioFinal = consulta.precioVenta * 100

\* C6: when tienePromocion is true and the current instant is within the dates and
\* the hours of at least one discount, calcularPrecioFinal returns
\* precioVenta * (1 - precioPromocional), the lowest over the discounts whose
\* window contains the instant.
C6_PrecioEnVentana ==
    (consulta.hecha /\ consulta.tienePromocion /\ EnAlgunaVentana) =>
        consulta.precioFinal = MenorPrecioEnVentana

\* the ten entities with a delete and a reactivate, by table name
Entidades ==
    {"producto_detalle", "orden_compra", "orden_compra_detalle", "descuento",
     "direccion", "localidad", "provincia", "categoria", "imagen", "usuario"}

\* findById(id) of the service of a table, and the default list of that service
FindByIdDe(tabla, id) ==
    CASE tabla = "producto_detalle"     -> ProductDetailFindById(id)
      [] tabla = "orden_compra"         -> OrderFindById(id)
      [] tabla = "orden_compra_detalle" -> OrderDetailFindById(id)
      [] tabla = "descuento"            -> DiscountFindById(id)
      [] tabla = "direccion"            -> FindById(tabla, id)
      [] tabla = "localidad"            -> FindById(tabla, id)
      [] tabla = "provincia"            -> FindById(tabla, id)
      [] tabla = "categoria"            -> FindById(tabla, id)
      [] tabla = "imagen"               -> FindById(tabla, id)
      [] tabla = "usuario"              -> UserFindById(id)

ListaDe(tabla) ==
    CASE tabla = "producto_detalle"     -> ProductDetailFindAllByProductoId
      [] tabla = "orden_compra"         -> OrderObtenerPorFecha
      [] tabla = "orden_compra_detalle" -> OrderDetailFindAll
      [] tabla = "descuento"            -> DiscountFindAll
      [] tabla = "direccion"            -> FindAll(tabla)
      [] tabla = "localidad"            -> FindAll(tabla)
      [] tabla = "provincia"            -> FindAll(tabla)
      [] tabla = "categoria"            -> FindAll(tabla)
      [] tabla = "imagen"               -> FindAll(tabla)
      [] tabla = "usuario"              -> UserFindAll

\* C7: for each of the ten entity services, from delete(id) until reactivate(id)
\* findById(id) returns null and the default list of the service omits the row.
C7_BajaOcultaLaFila ==
    \A b \in bajas :
        b[1] \in Entidades =>
            /\ FindByIdDe(b[1], b[2]) = Null
            /\ b[2] \notin ListaDe(b[1])

\* a row of each of the ten entities is deleted and not reactivated, while the
\* other variant is inactive by an update, not by a delete
C7_Witness ==
    /\ \A t \in Entidades : \E b \in bajas : b[1] = t
    /\ ~pdActivo[2]
    /\ <<"producto_detalle", 2>> \notin bajas

\* C8: no default query returns a soft-deleted row as a nested related row: the
\* product DTO queries include no variant, category or image with activo false,
\* and findByOrderId returns no lines for an order whose activo is false.
C8_SinAnidadosInactivos ==
    /\ \A dto \in ObtenerTodosLosProductosDTO
                  \cup UNION {ObtenerProductoDTOPorId(id) : id \in Filas}
                  \cup FiltrarYOrdenarProductos(FALSE)
                  \cup FiltrarYOrdenarProductos(TRUE) :
          /\ \A v \in dto.productos_detalles : pdActivo[v]
          /\ \A c \in dto.categorias : activo["categoria"][c]
          /\ \A m \in dto.imagenes : activo["imagen"][m]
    /\ \A o \in DOMAIN ordenCompra :
          ~ordenCompra[o].activo => FindByOrderId(o) = {}

ReactivarHecho == respuesta.op = "reactivateAccount" /\ ~respuesta.antes.activo
                      /\ respuesta.userId \in DOMAIN usuarios

\* C9: reactivateAccount(userId, newEmail, newUserName) of a soft-deleted user
\* succeeds only if no other active account uses newEmail or newUserName;
\* otherwise it fails and the user stays as it was, inactive with its email; on
\* success the user is active with email newEmail, userName newUserName and
\* fechaBaja cleared.
C9_ReactivarCuenta ==
    ReactivarHecho =>
        LET id    == respuesta.userId
            enUso == \/ OtroActivoConEmail(usuarios, id, respuesta.newEmail)
                     \/ OtroActivoConUserName(usuarios, id, respuesta.newUserName) IN
        /\ enUso => respuesta.resultado = "error"
        /\ respuesta.resultado = "error" => usuarios[id] = respuesta.antes
        /\ respuesta.resultado = "ok" =>
              /\ usuarios[id].activo
              /\ usuarios[id].email = respuesta.newEmail
              /\ usuarios[id].userName = respuesta.newUserName
              /\ usuarios[id].fechaBaja = "null"

\* the reactivation of a deactivated account succeeded while another account
\* is active
C9_Witness ==
    /\ ReactivarHecho
    /\ respuesta.antes.fechaBaja = "fecha"
    /\ respuesta.resultado = "ok"
    /\ \E j \in DOMAIN usuarios \ {respuesta.userId} : usuarios[j].activo

\* C10: after any sequence of register, create, updateCredentials (of both
\* services), deactivateAccount and reactivateAccount, no two active users share
\* an email or a userName.
C10_ActivosSinDuplicados ==
    \A i, j \in DOMAIN usuarios :
        (i # j /\ usuarios[i].activo /\ usuarios[j].activo) =>
            /\ usuarios[i].email # usuarios[j].email
            /\ usuarios[i].userName # usuarios[j].userName

\* two accounts are active after the write of an updateCredentials was refused
\* by the unique index
C10_Witness ==
    /\ \E i, j \in DOMAIN usuarios : i # j /\ usuarios[i].activo /\ usuarios[j].activo
    /\ respuesta.op = "UserService.updateCredentials"
    /\ respuesta.error = "unique"

\* C11: deletion is always soft: no operation removes a row, so the set of row
\* ids of each entity never shrinks
C11_NingunaFilaSeBorra ==
    [][/\ \A t \in Tablas : DOMAIN activo[t] \subseteq DOMAIN activo'[t]
       /\ DOMAIN usuarios \subseteq DOMAIN usuarios'
       /\ DOMAIN descuentos \subseteq DOMAIN descuentos'
       /\ DOMAIN ordenCompra \subseteq DOMAIN ordenCompra'
       /\ DOMAIN ordenCompraDetalle \subseteq DOMAIN ordenCompraDetalle'
       /\ DOMAIN pdActivo \subseteq DOMAIN pdActivo']_vars

\* the tables and the outcome of the service calls: everything but the request
SinPeticion == <<usuarios, uuids, respuesta, bajas, activo, varsOrden, varsPrecio>>

\* C12: verifyJWT passes a request on only if its header is 'Bearer <token>',
\* the token has a valid signature and has not expired, and at that moment an
\* active user has the token's id and the token's email; every other request
\* is answered 401 or 500, and no handler runs for a request that was answered
C12_VerifyJWT ==
    [][/\ (peticion' # peticion /\ peticion'.ruta = "") =>
            LET h    == peticion'.header
                pasa == peticion'.pc = "authorizeRoles"
                cond == /\ h.esquema = "Bearer"
                        /\ \A t \in h.token :
                              /\ t.firma = "JWT_SECRET"
                              /\ peticion'.ahora < t.exp
                              /\ t.id \in DOMAIN usuarios
                              /\ usuarios[t.id].activo
                              /\ usuarios[t.id].email = t.email
                              /\ peticion'.user = t.id IN
            /\ pasa => cond
            /\ ~pasa => peticion'.pc = "fin" /\ peticion'.status \in {401, 500}
            /\ ~cond => ~pasa
       /\ peticion.pc = "fin" => SinPeticion' = SinPeticion]_vars

C12_Witness ==
    /\ peticion.pc = "authorizeRoles"
    /\ peticion.header.esquema = "Bearer"
    /\ peticion.user = 2

C14_DescuentosValidos ==
    \A i \in DOMAIN descuentos :
        /\ descuentos[i].fechaDesde <= descuentos[i].fechaHasta
        /\ descuentos[i].horaDesde < descuentos[i].horaHasta
        /\ descuentos[i].precioPromocional > 0

\* C15: OrderDetailService.update(id, {cantidad: n}) on an active line of
\* quantity o, n # o, moves the stock of the line's variant by -(n - o) and leaves
\* the line with cantidad n and subtotal precioCompra * n; when n > o and the
\* stock is below n - o it fails and changes nothing, and so it does when the
\* line is missing or inactive
C15_UpdateAjustaStock ==
    [][ (respuesta' # respuesta /\ respuesta'.op = "OrderDetailService.update") =>
          LET id     == respuesta'.id
              n      == respuesta'.cantidad
              existe == id \in DOMAIN ordenCompraDetalle /\ ordenCompraDetalle[id].activo
              nada   == /\ respuesta'.resultado = "error"
                        /\ stockActual' = stockActual
                        /\ ordenCompraDetalle' = ordenCompraDetalle IN
          IF ~existe THEN nada
          ELSE LET o  == ordenCompraDetalle[id].cantidad
                   pd == ordenCompraDetalle[id].productoDetalleId IN
               IF n = o THEN TRUE
               ELSE IF n > o /\ stockActual[pd] < n - o THEN nada
               ELSE /\ respuesta'.resultado = "ok"
                    /\ stockActual'[pd] = stockActual[pd] - (n - o)
                    /\ \A v \in Variantes \ {pd} : stockActual'[v] = stockActual[v]
                    /\ DOMAIN ordenCompraDetalle' = DOMAIN ordenCompraDetalle
                    /\ ordenCompraDetalle'[id] =
                           [ordenCompraDetalle[id] EXCEPT !.cantidad = n,
                                                          !.subtotal = PrecioCompra[pd] * n]
                    /\ \A j \in DOMAIN ordenCompraDetalle \ {id} :
                           ordenCompraDetalle'[j] = ordenCompraDetalle[j] ]_vars

\* an update that lowered the quantity of an active line has returned stock
C15_Witness ==
    /\ respuesta.op = "OrderDetailService.update"
    /\ respuesta.resultado = "ok"
    /\ respuesta.id \in DOMAIN respuesta.antes.ordenCompraDetalle
    /\ respuesta.id \in DOMAIN ordenCompraDetalle
    /\ LET antes == respuesta.antes.ordenCompraDetalle[respuesta.id] IN
       /\ respuesta.cantidad < antes.cantidad
       /\ ordenCompraDetalle[respuesta.id].cantidad = respuesta.cantidad
       /\ stockActual[antes.productoDetalleId] =
              respuesta.antes.stockActual[antes.productoDetalleId]
                  + (antes.cantidad - respuesta.cantidad)

RECURSIVE DescontadoPorLlamadas(_, _)
DescontadoPorLlamadas(v, r) ==
    IF r > NumReqs THEN 0
    ELSE (IF /\ req[r].op = "descontarStock" /\ req[r].resultado = "ok"
             /\ req[r].productoDetalleId = v
          THEN req[r].cantidad ELSE 0)
         + DescontadoPorLlamadas(v, r + 1)

\* C18: concurrent calls of ProductDetailService.descontarStock on one variant
\* behave as if run one after the other: the stock has gone down by the sum of
\* the quantities of the calls that succeeded (no update is lost), a call that
\* failed has deducted nothing, and the stock is never negative
C18_DescontarStockAtomico ==
    \A v \in Variantes :
        /\ stockActual[v] = StockInicial - DescontadoPorLlamadas(v, 1)
        /\ stockActual[v] >= 0

\* C19: after OrderService.delete(id) every order line of the order is inactive
\* too: in the state a deactivation of an order leaves, no line of it is active
C19_OrdenDesactivaSusLineas ==
    [][ \A o \in DOMAIN ordenCompra :
          (ordenCompra[o].activo /\ ~ordenCompra'[o].activo) =>
              \A i \in DOMAIN ordenCompraDetalle' :
                  ordenCompraDetalle'[i].ordenCompraId = o =>
                      ~ordenCompraDetalle'[i].activo ]_vars

\* C20: after CategoryService.deleteCategory(id) the category and all of its
\* subcategories (categoriaPadreId = id) are inactive: in the state a
\* deactivation of a category leaves, no subcategory of it is active
C20_CategoriaDesactivaSubcategorias ==
    [][ \A id \in DOMAIN activo["categoria"] :
          (activo["categoria"][id] /\ ~activo'["categoria"][id]) =>
              \A sub \in DOMAIN activo'["categoria"] :
                  CategoriaPadreId[sub] = id => ~activo'["categoria"][sub] ]_vars

\* the email of each seeded account, which the tokens issued to it carry
EmailAlEmitir == <<UsuarioSembrado.email, <<"beto@mail.com">>>>

C22_ReactivarAlcanzable ==
    [][ (peticion' # peticion /\ peticion'.ruta = ""
           /\ peticion'.header.esquema = "Bearer") =>
          \A t \in peticion'.header.token :
              (/\ <<"usuario", t.id>> \in bajas
               /\ VerifyToken(t, peticion'.ahora) = "ok"
               /\ t.email = EmailAlEmitir[t.id]) =>
                  peticion'.status # 401 ]_vars

\* what deactivateAccount does to the table: a successful call was made on an
\* active account and has deactivated and anonymised that row alone; a failed
\* call has changed nothing
BajaEscribeUnaFila ==
    [][ (respuesta'.op = "deactivateAccount"
            /\ (respuesta' # respuesta \/ usuarios' # usuarios)) =>
          IF respuesta'.resultado = "ok"
          THEN LET u == respuesta'.userId IN
               /\ u \in DOMAIN usuarios /\ usuarios[u].activo
               /\ respuesta'.antes = usuarios[u]
               /\ usuarios' = [usuarios EXCEPT ![u] =
                      [@ EXCEPT !.activo = FALSE, !.fechaBaja = "fecha",
                                !.email = DeactivatedEmail(uuids'),
                                !.userName = DeactivatedUserName(uuids')]]
               /\ usuarios'[u].email \notin Emails
               /\ usuarios'[u].userName \notin Emails
          ELSE /\ usuarios' = usuarios /\ uuids' = uuids /\ bajas' = bajas
               /\ respuesta'.error = "ya_desactivada" =>
                      \E u \in DOMAIN usuarios : ~usuarios[u].activo ]_vars

C24_ClienteSoloSusOrdenes ==
    /\ \A r \in Reqs :
          (CreateTerminado(r) /\ req[r].ordenCompraId \in DOMAIN ordenCompra) =>
              LET ajena == ordenCompra[req[r].ordenCompraId].usuarioId # req[r].uid IN
              /\ (req[r].rol = "CLIENTE" /\ ajena) =>
                     /\ req[r].resultado = "error"
                     /\ req[r].error \in {"no_autorizado", "fallo"}
                     /\ stockActual = req[r].antes.stockActual
                     /\ Len(ordenCompraDetalle) = req[r].antes.nDetalles
              /\ (req[r].rol = "ADMIN" \/ ~ajena) => req[r].error # "no_autorizado"
    /\ \A uid \in UsuarioIds :
          /\ \A id \in DOMAIN ordenCompraDetalle :
                LET res   == OrderDetailFindByIdComo(id, uid)
                    ajena == ordenCompra[ordenCompraDetalle[id].ordenCompraId].usuarioId
                                 # uid IN
                /\ (RolDe[uid] = "CLIENTE" /\ ajena) => res.filas = {}
                /\ (RolDe[uid] = "CLIENTE" /\ ajena /\ ordenCompraDetalle[id].activo) =>
                       res.error = "no_autorizado"
                /\ (RolDe[uid] = "ADMIN" \/ ~ajena) =>
                       res.error = "" /\ res.filas = {id} \cap OrderDetailFindAll
          /\ \A o \in DOMAIN ordenCompra :
                LET res   == FindByOrderIdComo(o, uid)
                    ajena == ordenCompra[o].usuarioId # uid IN
                /\ (RolDe[uid] = "CLIENTE" /\ ajena) =>
                       res.error = "no_autorizado" /\ res.filas = {}
                /\ (RolDe[uid] = "ADMIN" \/ ~ajena) =>
                       res.error = "" /\ res.filas = FindByOrderId(o)

\* a CLIENTE's create on an order of another user has ended 'not authorized',
\* and that order has an active line the CLIENTE may not read
C24_Witness ==
    \E r \in Reqs :
        /\ CreateTerminado(r) /\ req[r].error = "no_autorizado"
        /\ req[r].rol = "CLIENTE"
        /\ ordenCompra[req[r].ordenCompraId].usuarioId \notin {SinUsuario, req[r].uid}
        /\ \E i \in DOMAIN ordenCompraDetalle :
              /\ ordenCompraDetalle[i].ordenCompraId = req[r].ordenCompraId
              /\ ordenCompraDetalle[i].activo
              /\ OrderDetailFindByIdComo(i, req[r].uid).error = "no_autorizado"

\* C25: every fixed-path GET route is dispatched to its own handler and is never
\* captured by the '/:id' route of its router: GET /categorias/root,
\* GET /orden_compra/fecha and GET /product_details/buscar, /filtrar and
\* /disponible are answered by the route of that name
C25_RutasFijas ==
    [][ (peticion' # peticion /\ peticion'.pc = "fin") =>
          LET url == peticion'.url IN
          \A fija \in {"root", "fecha", "buscar", "filtrar", "disponible"} :
              (/\ url.path = <<fija>>
               /\ \E i \in DOMAIN Capas[url.router] :
                     Capas[url.router][i].patron = <<fija>>) =>
                  peticion'.ruta = "GET " \o url.router \o "/" \o fija ]_vars

\* C26: AuthService.updateCredentials changes the email or the password of an
\* account only if currentPassword matches the stored password and the account
\* is active; with a wrong current password, with a new password equal to the
\* current one, or with a new email used by another active account it fails and
\* leaves email, userName and password unchanged; a successful email change also
\* sets userName to the new email. (Every failing call leaves the table as it
\* was; a call is also refused, by the unique indexes, when the new email is the
\* email or the userName of a row the lookup among active accounts by email
\* does not see.)
C26_Llamadas == IdsUsuarioPayload \X Passwords \X PayloadsCredentials

C26_CredencialesProtegidas ==
    /\ [](\A ll \in C26_Llamadas :
            LET userId   == ll[1]
                r        == AuthUpdateCredentialsDe(usuarios, userId, ll[2], ll[3])
                user     == usuarios[userId]
                newEmail == ll[3].newEmail
                newPassword == ll[3].newPassword IN
            /\ r.error = "" =>
                  /\ userId \in DOMAIN usuarios
                  /\ user.activo
                  /\ user.password = BcryptHash(ll[2])
                  /\ r.fila.activo
                  /\ (newEmail # {} /\ newEmail # {user.email}) =>
                        /\ r.fila.email = Opt(newEmail, <<>>)
                        /\ r.fila.userName = Opt(newEmail, <<>>)
                  /\ (newEmail = {} \/ newEmail = {user.email}) =>
                        /\ r.fila.email = user.email
                        /\ r.fila.userName = user.userName
                  /\ r.fila.password = IF newPassword = {} THEN user.password
                                       ELSE BcryptHash(Opt(newPassword, ""))
            /\ (userId \in DOMAIN usuarios /\ user.activo) =>
                  /\ user.password # BcryptHash(ll[2]) => r.error = "password_incorrecta"
                  /\ (/\ user.password = BcryptHash(ll[2])
                      /\ newPassword # {}
                      /\ user.password = BcryptHash(Opt(newPassword, ""))) =>
                        r.error = "password_igual"
                  /\ (/\ user.password = BcryptHash(ll[2])
                      /\ newEmail # {} /\ newEmail # {user.email}
                      /\ \E j \in DOMAIN usuarios \ {userId} :
                            usuarios[j].activo /\ {usuarios[j].email} = newEmail) =>
                        r.error = "email_en_uso")
    /\ [][ respuesta'.op = "AuthService.updateCredentials" =>
             /\ respuesta'.resultado = "error" => usuarios' = usuarios
             /\ respuesta'.resultado = "ok" =>
                   \E ll \in C26_Llamadas :
                       /\ AuthUpdateCredentialsDe(usuarios, ll[1], ll[2], ll[3]).error = ""
                       /\ usuarios' = [usuarios EXCEPT ![ll[1]] =
                             AuthUpdateCredentialsDe(usuarios, ll[1], ll[2], ll[3]).fila] ]_vars

\* an account has changed its email through AuthService.updateCredentials, with
\* another active account next to it
C26_Witness ==
    /\ respuesta.op = "AuthService.updateCredentials"
    /\ respuesta.resultado = "ok"
    /\ \E u \in DOMAIN usuarios :
          /\ usuarios[u].activo
          /\ usuarios[u].email = <<"caro@mail.com">>
          /\ usuarios[u].userName = <<"caro@mail.com">>
    /\ Cardinality({u \in DOMAIN usuarios : usuarios[u].activo}) = 2

\* the sum of cantidad over the active order lines, from line i on, that
\* reference variant v
RECURSIVE CantidadActiva(_, _, _)
CantidadActiva(lineas, v, i) ==
    IF i > Len(lineas) THEN 0
    ELSE (IF lineas[i].activo /\ lineas[i].productoDetalleId = v
          THEN lineas[i].cantidad ELSE 0)
         + CantidadActiva(lineas, v, i + 1)

C28_StockNoNegativo == \A v \in Variantes : stockActual[v] >= 0

\* the sum of the subtotals of the active lines of order o, from line i on
RECURSIVE SubtotalActivo(_, _, _)
SubtotalActivo(lineas, o, i) ==
    IF i > Len(lineas) THEN 0
    ELSE (IF lineas[i].activo /\ lineas[i].ordenCompraId = o
          THEN lineas[i].subtotal ELSE 0)
         + SubtotalActivo(lineas, o, i + 1)

\* C29: in every reachable state the total of every order is the sum of the
\* subtotals of its active order lines (after OrderService.crear and after every
\* statement of OrderDetailService.create on a line of the order)
C29_TotalEsSumaDeSubtotales ==
    \A o \in DOMAIN ordenCompra :
        ordenCompra[o].total = SubtotalActivo(ordenCompraDetalle, o, 1)

====
